---- MODULE Spec2Model ----
(***************************************************************************)
(* Verification model of the real-time tick pipeline of ckcrock/trA:       *)
(*   - DataBridge     (src/src/bridge/data_bridge.py)                      *)
(*   - BarAggregator  (src/src/bridge/bar_aggregator.py)                   *)
(*   - AdvancedOrderManager, the GTT engine (src/src/manual/order_manager.py) *)
(*   - BracketOrderManager  (src/src/manual/bracket_orders.py)             *)
(*   - TokenBucketRateLimiter (src/src/adapters/angel/rate_limiter.py)     *)
(*   - AngelDataClient (src/src/adapters/angel/data_client.py)             *)
(* Each component has its own specification (SpecBridge, SpecBars,         *)
(* SpecGTT, SpecBracket, SpecLimiter, SpecFetch, SpecChunked); the         *)
(* variables of the other components stay unchanged.                       *)
(***************************************************************************)
EXTENDS Integers, Sequences, FiniteSets, TLC

VARIABLES
    \* ---- DataBridge ----
    queue,          \* self.queue: asyncio.Queue(maxsize), oldest first
    subscribers,    \* self.subscribers: list of async callbacks
    running,        \* self.running
    loop,           \* self._loop: "None" or "loop"
    task,           \* self._processor_task and the task's state
    stats,          \* self.stats
    prom,           \* the module-level Prometheus counters (PROM_AVAILABLE)
    callbacks,      \* _enqueue_tick calls scheduled by call_soon_threadsafe
    consumer,       \* position of _process_events
    calls,          \* subscriber coroutines gathered by _broadcast
    stopper,        \* position of the stop() coroutine
    producer,       \* position of submit_tick on the producer thread
    hist,           \* history of the run (observation only)
    \* ---- BarAggregator ----
    bars,           \* self._bars: the open bars, in the dict's insertion order
    aggStats,       \* self.stats
    emitted,        \* output bars handed to the callbacks, in order
    barHist,        \* history of the run (observation only)
    bar_callbacks,  \* len(self._callbacks)
    flush_task,     \* position of a flush() coroutine run in a task of its own
    \* ---- AdvancedOrderManager (GTT) ----
    gtt_orders,         \* self.gtt_orders in insertion order; an id is a position
    oco_pairs,          \* self.oco_pairs: pairs <<order id, linked order id>>
    order_callback,     \* self._order_callback: "None" or "set"
    triggered_history,  \* self.triggered_history
    gttEvents,          \* the dicts handed to the order callback, in order
    gttHist,            \* the last call and its outcome (observation only)
    \* ---- BracketOrderManager ----
    orders,             \* self.orders in insertion order; an id is a position
    bo_callback,        \* self._order_callback: "None" or "set"
    completed_orders,   \* self.completed_orders
    boEvents,           \* the dicts handed to the order callback, in order
    boHist,             \* the last call and its outcome (observation only)
    \* ---- TokenBucketRateLimiter ----
    rl_rate,            \* self.rate, tokens per second
    rl_capacity,        \* self.capacity
    rl_tokens,          \* self.tokens, in units of 1/TicksPerSecond token
    rl_since,           \* time.time() - self.last_update, in clock ticks
    rl_lock,            \* self.lock: the caller holding it, 0 when free
    rl_callers,         \* the threads and tasks calling the limiter
    rl_allowance,       \* capacity + rate x elapsed - granted (observation only)
    rl_test,            \* position of test_rate_limiter_refill
    \* ---- AngelDataClient ----
    cooldown_left,      \* self._cooldown_until - time.time(), 0 when passed
    fetches,            \* the running get_historical_data calls
    chunked,            \* the running get_historical_data_chunked call
    summary             \* a call of _continuity_summary: arguments and result

bridgeVars == <<queue, subscribers, running, loop, task, stats, prom, callbacks,
                consumer, calls, stopper, producer, hist>>
barVars == <<bars, aggStats, emitted, barHist, bar_callbacks, flush_task>>
gttVars == <<gtt_orders, oco_pairs, order_callback, triggered_history,
             gttEvents, gttHist>>
boVars == <<orders, bo_callback, completed_orders, boEvents, boHist>>
orderVars == <<gttVars, boVars>>
pipelineVars == <<bridgeVars, barVars, orderVars>>
rlVars == <<rl_rate, rl_capacity, rl_tokens, rl_since, rl_lock, rl_callers,
            rl_allowance, rl_test>>
clientVars == <<cooldown_left, fetches, chunked, summary>>
adapterVars == <<rlVars, clientVars>>
vars == <<pipelineVars, adapterVars>>

(***************************************************************************)
(* Bounds of the model.                                                    *)
(***************************************************************************)
QueueCap == 2        \* max_queue_size of the bridge under test
MaxTicks == 3        \* submit_tick calls in a run
MaxSubs == 2         \* subscribe calls in a run
MaxBarTicks == 3     \* on_tick calls in a run
MaxStreamTicks == 4  \* on_tick calls in a run of one symbol's ordered stream
MaxTime == 3         \* timestamps are 0..MaxTime
DayLen == 3          \* time units from one midnight to the next
MaxCapacity == 1     \* a limiter under test has capacity 1..MaxCapacity
MaxRows == 3         \* rows of a frame handed to _continuity_summary

(***************************************************************************)
(* Sequence helpers.                                                       *)
(***************************************************************************)
RECURSIVE SeqSum(_)
SeqSum(s) == IF s = <<>> THEN 0 ELSE Head(s) + SeqSum(Tail(s))

SelectIdx(s, Test(_)) ==
    LET RECURSIVE Go(_, _)
        Go(i, acc) == IF i > Len(s) THEN acc
                      ELSE Go(i + 1, IF Test(s[i]) THEN Append(acc, s[i]) ELSE acc)
    IN Go(1, <<>>)

SeqMap(s, F(_)) == [i \in 1..Len(s) |-> F(s[i])]

Range(s) == {s[i] : i \in 1..Len(s)}

(***************************************************************************)
(* Raw ticks.  A raw tick is a dict; the model keeps the keys the bridge   *)
(* reads: "token" ("None" when missing or None), whether a price-like key  *)
(* is present, the value under "ltp", the value under "volume" as the text *)
(* the feed delivered, and "seq".                                          *)
(***************************************************************************)
TickShapes ==
    { [token |-> "T1",   has_price |-> TRUE,  ltp |-> 500,    volume |-> "7"],
      [token |-> "T1",   has_price |-> TRUE,  ltp |-> 150000, volume |-> "abc"],
      [token |-> "None", has_price |-> TRUE,  ltp |-> 500,    volume |-> "7"],
      [token |-> "T1",   has_price |-> FALSE, ltp |-> 0,      volume |-> "7"] }

RawTick(n, shape) ==
    [seq |-> n, token |-> shape.token, has_price |-> shape.has_price,
     ltp |-> shape.ltp, volume |-> shape.volume]

\* mutant: the token is not checked
IsValidTick_PriceOnly(tick) == tick.has_price

\* DataBridge._is_valid_tick
IsValidTick(tick) == tick.token /= "None" /\ tick.has_price

\* int(x) of Python on the texts the model uses: a value, or ValueError
IntLiteral == [t \in {"0", "7"} |-> IF t = "7" THEN 7 ELSE 0]
IntRaises(text) == text \notin DOMAIN IntLiteral

\* _normalize_price: values >= 100000 are taken as scaled by 100
NormalizePrice(value) ==
    IF value >= 100000 \/ value <= -100000 THEN value \div 100 ELSE value

\* DataBridge._normalize_tick: the normalized tick, or the exception it raises
NormalizeTick(raw) ==
    IF IntRaises(raw.volume)
    THEN [ok |-> FALSE, error |-> "ValueError", seq |-> raw.seq]
    ELSE [ok |-> TRUE, seq |-> raw.seq, token |-> raw.token,
          ltp |-> NormalizePrice(raw.ltp), volume |-> IntLiteral[raw.volume]]

\* mutant: the capacity test is off by one
QueueFull_OffByOne(q) == Len(q) > QueueCap

\* asyncio.Queue.full()
QueueFull(q) == Len(q) >= QueueCap


(***************************************************************************)
(* DataBridge.                                                             *)
(***************************************************************************)
SubIds == 1..MaxSubs

Bump(rec, field) == [rec EXCEPT ![field] = @ + 1]

\* `if PROM_AVAILABLE: COUNTER.inc()`: prom holds the counters of a process in
\* which prometheus_client was importable (in any other they do not exist)
PromInc(p, field) == Bump(p, field)

\* `while self.running:` at the top of _process_events
LoopCheck(run) == IF run THEN "get" ELSE "done"

\* mutant: no handler, the exception ends the consumer task
AfterProcessingError_Propagates(run) == "crashed"

\* `except Exception as e: logger.error(...)`: the loop goes on
AfterProcessingError(run) == LoopCheck(run)

\* asyncio.gather(*tasks, return_exceptions=True) returns once every
\* subscriber coroutine has returned or raised
Finished(c) == c.state \in {"returned", "raised"}
\* mutant: the subscriber coroutines are started but not awaited
GatherDone_NoWait(cs) == TRUE

GatherDone(cs) == \A c \in cs : Finished(c)

\* mutant: stop() does not wait for the consumer task
AwaitTaskDone_NoAwait(pc) == TRUE

\* `await self._processor_task` in stop()
AwaitTaskDone(pc) == pc \in {"done", "crashed"}

\* self._loop.call_soon_threadsafe(...) on a _loop that is None raises
\* AttributeError
ScheduleRaises(loopRef) == loopRef = "None"

\* _broadcast: one coroutine per subscriber, created in list order
NewCalls(subs, tick) ==
    {[sub |-> subs[i], tick |-> tick, state |-> "scheduled"] : i \in 1..Len(subs)}

BridgeInit ==
    /\ queue = <<>>
    /\ subscribers = <<>>
    /\ running = FALSE
    /\ loop = "None"
    /\ task = "None"
    /\ stats = [ticks_received |-> 0, ticks_dropped |-> 0, broadcast_count |-> 0]
    /\ prom = [received |-> 0, dropped |-> 0, invalid |-> 0]
    /\ callbacks = <<>>
    /\ consumer = "none"
    /\ calls = {}
    /\ stopper = "idle"
    /\ producer = [pc |-> "idle"]
    /\ hist = [submitted |-> 0, raised |-> FALSE, stopAt |-> 0, queuedAtStop |-> {},
               offered |-> <<>>, accepted |-> <<>>, dequeued |-> <<>>,
               received |-> [s \in SubIds |-> <<>>],
               subFrom |-> [s \in SubIds |-> 0]]

\* DataBridge.subscribe
Subscribe ==
    /\ Len(subscribers) < MaxSubs
    /\ LET s == Len(subscribers) + 1 IN
        /\ subscribers' = Append(subscribers, s)
        /\ hist' = [hist EXCEPT !.subFrom[s] = Len(hist.dequeued)]
    /\ UNCHANGED <<adapterVars, barVars, orderVars, queue, running, loop, task, stats, prom, callbacks, consumer,
                   calls, stopper, producer>>

\* DataBridge.start (called when no processor task is alive)
Start ==
    /\ task = "None"
    /\ stopper /= "awaiting"
    /\ running' = TRUE
    /\ loop' = "loop"
    /\ task' = "Task"
    /\ consumer' = "created"
    /\ stopper' = "idle"
    /\ UNCHANGED <<adapterVars, barVars, orderVars, queue, subscribers, stats, prom, callbacks, calls, producer,
                   hist>>

\* DataBridge.stop up to `await self._processor_task`
StopBegin ==
    /\ stopper = "idle"
    /\ running' = FALSE
    /\ IF task = "Task"
       THEN stopper' = "awaiting" /\ UNCHANGED loop
       ELSE stopper' = "returned" /\ loop' = "None"
    /\ hist' = [hist EXCEPT !.stopAt = IF consumer = "broadcast"
                                        THEN Len(hist.dequeued) ELSE 0,
                            !.queuedAtStop = {queue[i].seq : i \in 1..Len(queue)}]
    /\ UNCHANGED <<adapterVars, barVars, orderVars, queue, subscribers, task, stats, prom, callbacks, consumer,
                   calls, producer>>

\* DataBridge.stop after the await
StopFinish ==
    /\ stopper = "awaiting"
    /\ AwaitTaskDone(consumer)
    /\ task' = "None"
    /\ loop' = "None"
    /\ stopper' = "returned"
    /\ UNCHANGED <<adapterVars, barVars, orderVars, queue, subscribers, running, stats, prom, callbacks, consumer,
                   calls, producer, hist>>

\* DataBridge.submit_tick, line 84: `if self._loop is None: return` (the tick
\* is discarded and nothing changes), else on to line 87
SubmitCheck ==
    /\ producer.pc = "idle"
    /\ hist.submitted < MaxTicks
    /\ \E shape \in TickShapes :
        IF loop = "None"
        THEN UNCHANGED <<producer, hist>>
        ELSE /\ hist' = Bump(hist, "submitted")
             /\ producer' = [pc |-> "checked",
                             tick |-> RawTick(hist.submitted + 1, shape)]
    /\ UNCHANGED <<adapterVars, barVars, orderVars, queue, subscribers, running, loop, task, stats, prom, callbacks,
                   consumer, calls, stopper>>

\* DataBridge.submit_tick, line 87: self._loop is read again
SubmitSchedule ==
    /\ producer.pc = "checked"
    /\ IF ScheduleRaises(loop)
       THEN hist' = [hist EXCEPT !.raised = TRUE] /\ UNCHANGED callbacks
       ELSE callbacks' = Append(callbacks, producer.tick) /\ UNCHANGED hist
    /\ producer' = [pc |-> "idle"]
    /\ UNCHANGED <<adapterVars, barVars, orderVars, queue, subscribers, running, loop, task, stats, prom, consumer,
                   calls, stopper>>

\* DataBridge._enqueue_tick, run by the event loop
EnqueueTick ==
    /\ callbacks /= <<>>
    /\ callbacks' = Tail(callbacks)
    /\ LET tick == Head(callbacks) IN
        IF ~IsValidTick(tick)
        THEN /\ stats' = Bump(stats, "ticks_dropped")
             /\ prom' = PromInc(prom, "invalid")
             /\ hist' = [hist EXCEPT !.offered = Append(@, tick)]
             /\ UNCHANGED queue
        ELSE IF QueueFull(queue)
        THEN /\ stats' = Bump(stats, "ticks_dropped")
             /\ prom' = PromInc(prom, "dropped")
             /\ hist' = [hist EXCEPT !.offered = Append(@, tick)]
             /\ UNCHANGED queue
        ELSE /\ queue' = Append(queue, tick)
             /\ stats' = Bump(stats, "ticks_received")
             /\ prom' = PromInc(prom, "received")
             /\ hist' = [hist EXCEPT !.offered = Append(@, tick),
                                     !.accepted = Append(@, tick)]
    /\ UNCHANGED <<adapterVars, barVars, orderVars, subscribers, running, loop, task, consumer, calls, stopper,
                   producer>>

\* _process_events: the task's first step
ConsumerBegin ==
    /\ consumer = "created"
    /\ consumer' = LoopCheck(running)
    /\ UNCHANGED <<adapterVars, barVars, orderVars, queue, subscribers, running, loop, task, stats, prom, callbacks,
                   calls, stopper, producer, hist>>

\* _process_events: wait_for(queue.get()) times out on the empty queue
GetTimeout ==
    /\ consumer = "get"
    /\ queue = <<>>
    /\ consumer' = LoopCheck(running)
    /\ UNCHANGED <<adapterVars, barVars, orderVars, queue, subscribers, running, loop, task, stats, prom, callbacks,
                   calls, stopper, producer, hist>>

\* _process_events: a tick is dequeued, normalized and handed to _broadcast
GetTick ==
    /\ consumer = "get"
    /\ queue /= <<>>
    /\ queue' = Tail(queue)
    /\ hist' = [hist EXCEPT !.dequeued = Append(@, Head(queue))]
    /\ LET n == NormalizeTick(Head(queue)) IN
        IF ~n.ok
        THEN /\ consumer' = AfterProcessingError(running)
             /\ UNCHANGED <<stats, calls>>
        ELSE IF subscribers = <<>>
        THEN /\ stats' = Bump(stats, "broadcast_count")
             /\ consumer' = LoopCheck(running)
             /\ UNCHANGED calls
        ELSE /\ calls' = calls \cup NewCalls(subscribers, n)
             /\ consumer' = "broadcast"
             /\ UNCHANGED stats
    /\ UNCHANGED <<adapterVars, barVars, orderVars, subscribers, running, loop, task, prom, callbacks, stopper,
                   producer>>

\* a subscriber coroutine starts to run with its tick
SubscriberStart ==
    \E c \in calls :
        /\ c.state = "scheduled"
        /\ calls' = (calls \ {c}) \cup {[c EXCEPT !.state = "running"]}
        /\ hist' = [hist EXCEPT !.received[c.sub] = Append(@, c.tick.seq)]
        /\ UNCHANGED <<adapterVars, barVars, orderVars, queue, subscribers, running, loop, task, stats, prom,
                       callbacks, consumer, stopper, producer>>

\* a subscriber coroutine returns or raises
SubscriberFinish ==
    \E c \in calls, outcome \in {"returned", "raised"} :
        /\ c.state = "running"
        /\ calls' = (calls \ {c}) \cup {[c EXCEPT !.state = outcome]}
        /\ UNCHANGED <<adapterVars, barVars, orderVars, queue, subscribers, running, loop, task, stats, prom,
                       callbacks, consumer, stopper, producer, hist>>

\* _process_events: gather has returned, the tick is done
GatherComplete ==
    /\ consumer = "broadcast"
    /\ GatherDone(calls)
    /\ calls' = {c \in calls : ~Finished(c)}
    /\ stats' = Bump(stats, "broadcast_count")
    /\ consumer' = LoopCheck(running)
    /\ UNCHANGED <<adapterVars, barVars, orderVars, queue, subscribers, running, loop, task, prom, callbacks,
                   stopper, producer, hist>>

\* no flush() is running
NoFlush == [pc |-> "idle", keys |-> <<>>, i |-> 0]

BarIdle ==
    /\ bars = <<>>
    /\ aggStats = <<>>
    /\ emitted = <<>>
    /\ barHist = <<>>
    /\ bar_callbacks = 0
    /\ flush_task = NoFlush

BridgeNext ==
    \/ Subscribe
    \/ Start
    \/ StopBegin
    \/ StopFinish
    \/ SubmitCheck
    \/ SubmitSchedule
    \/ EnqueueTick
    \/ ConsumerBegin
    \/ GetTimeout
    \/ GetTick
    \/ SubscriberStart
    \/ SubscriberFinish
    \/ GatherComplete

\* the order managers left as constructed and never called
GttIdle ==
    /\ gtt_orders = <<>>
    /\ oco_pairs = {}
    /\ order_callback = "None"
    /\ triggered_history = <<>>
    /\ gttEvents = <<>>
    /\ gttHist = <<>>

BoIdle ==
    /\ orders = <<>>
    /\ bo_callback = "None"
    /\ completed_orders = <<>>
    /\ boEvents = <<>>
    /\ boHist = <<>>

\* the threads and tasks that call one rate limiter
CallerIds == {1, 2}

\* a thread or task that is not inside a limiter call
IdleCaller == [pc |-> "idle", kind |-> "", n |-> 0, sleep |-> 0, ret |-> FALSE]

\* test_rate_limiter_refill not running
NoTest == [phase |-> "none", results |-> <<>>, early |-> FALSE, slept |-> 0,
           late |-> FALSE]

\* no rate limiter constructed
RlIdle ==
    /\ rl_rate = 0
    /\ rl_capacity = 0
    /\ rl_tokens = 0
    /\ rl_since = 0
    /\ rl_lock = 0
    /\ rl_callers = [p \in CallerIds |-> IdleCaller]
    /\ rl_allowance = 0
    /\ rl_test = NoTest

\* the tasks that call get_historical_data on one client
FetchIds == {1, 2}

\* a task that is not inside get_historical_data
IdleFetch == [pc |-> "idle", attempt |-> 0, sleep |-> 0, calls |-> 0,
              granted |-> 0, last |-> "", result |-> ""]

\* get_historical_data_chunked not called; given is the chunk_days argument,
\* chunk_days the local that lines 245-247 assign; returned is the merged
\* series (value "df"), None, or the exception that left the call ("raised")
NoChunked == [pc |-> "idle", interval |-> "", to_date |-> 0, given |-> 0,
              chunk_days |-> 0,
              current_from |-> 0, current_to |-> 0, all_dfs |-> <<>>,
              requests |-> <<>>, continuity |-> <<>>,
              returned |-> [value |-> "", df |-> <<>>]]

\* a data client as constructed, with no call running
\* _continuity_summary not called
NoSummary == [pc |-> "idle", df |-> <<>>, interval |-> "",
              result |-> [gap_count |-> 0, duplicate_count |-> 0]]

ClientIdle ==
    /\ cooldown_left = 0
    /\ fetches = [f \in FetchIds |-> IdleFetch]
    /\ chunked = NoChunked
    /\ summary = NoSummary

AdapterIdle == RlIdle /\ ClientIdle

InitBridge == BridgeInit /\ BarIdle /\ GttIdle /\ BoIdle /\ AdapterIdle

SpecBridge == InitBridge /\ [][BridgeNext]_vars


(***************************************************************************)
(* BarAggregator.  Time is an integer count of units; midnight falls at    *)
(* every multiple of DayLen.                                               *)
(***************************************************************************)
\* self.intervals
Intervals == <<1, 2>>

Symbols == {"A", "B"}
Keys == Symbols \X Range(Intervals)

\* a normalized tick as on_tick reads it.  timestamp.kind: "iso" (text
\* without offset, or a number), "iso_tz" (text with a UTC offset, the form
\* DataBridge emits), "missing" (absent or unparsable: t is what
\* datetime.now() returns)
Prices == {0, 1, 2}
Volumes == {1, 2}

Timestamps == [kind : {"iso", "iso_tz", "missing"}, t : 0..MaxTime]

TickInputs == [symbol : Symbols, ltp : Prices, volume : {2}, timestamp : Timestamps]

\* the ticks of one symbol
StreamInputs == [symbol : {"A"}, ltp : Prices, volume : Volumes, timestamp : Timestamps]

\* on_tick lines 66-75: the tick's datetime and whether it is timezone-aware
ParseTime(ts) == [t |-> ts.t, aware |-> ts.kind = "iso_tz"]

\* BarAggregator._get_bar_start on a naive datetime
GetBarStart(t, interval) ==
    LET epoch == (t \div DayLen) * DayLen
        seconds_since_midnight == t - epoch
    IN epoch + (seconds_since_midnight \div interval) * interval

\* BarAggregator._new_bar
NewBar(symbol, bar_start, interval, price, volume) ==
    [symbol |-> symbol, bar_start |-> bar_start, interval_seconds |-> interval,
     open |-> price, high |-> price, low |-> price, close |-> price,
     volume |-> volume, tick_count |-> 1]

Max(a, b) == IF a >= b THEN a ELSE b
Min(a, b) == IF a <= b THEN a ELSE b

\* mutant: the high is overwritten by the last price
UpdateBar_HighIsLast(bar, ltp, volume) ==
    [bar EXCEPT !.high = ltp, !.low = Min(@, ltp), !.close = ltp,
                !.volume = @ + volume, !.tick_count = @ + 1]

\* on_tick lines 95-99: update the existing bar
UpdateBar(bar, ltp, volume) ==
    [bar EXCEPT !.high = Max(@, ltp), !.low = Min(@, ltp), !.close = ltp,
                !.volume = @ + volume, !.tick_count = @ + 1]

\* datetime.isoformat(): the date and the time of day
IsoFormat(t) == [date |-> t \div DayLen, time |-> t % DayLen]

\* _emit_bar: the output bar handed to the callbacks
OutputBar(bar) ==
    [symbol |-> bar.symbol, timestamp |-> IsoFormat(bar.bar_start),
     interval_seconds |-> bar.interval_seconds, open |-> bar.open,
     high |-> bar.high, low |-> bar.low, close |-> bar.close,
     volume |-> bar.volume, tick_count |-> bar.tick_count]

\* position of key (symbol, interval) in self._bars, 0 when absent
KeyIndex(bs, symbol, interval) ==
    LET hits == {i \in 1..Len(bs) :
                    bs[i].symbol = symbol /\ bs[i].interval_seconds = interval}
    IN IF hits = {} THEN 0 ELSE CHOOSE i \in hits : TRUE

\* mutant: a tick of any other bucket, earlier ones too, closes the open bar
ClosesBar_AnyOtherBucket(bar_start, current_bar_start) ==
    bar_start /= current_bar_start

\* on_tick line 87: only a tick of a later bucket closes the open bar
ClosesBar(bar_start, current_bar_start) == bar_start > current_bar_start

\* on_tick lines 78-99: the loop over self.intervals, from the i-th on
RECURSIVE ForIntervals(_, _, _, _, _, _)
ForIntervals(i, bs, em, st, tick, tick_time) ==
    IF i > Len(Intervals) THEN [bars |-> bs, emitted |-> em, stats |-> st]
    ELSE
        LET interval == Intervals[i]
            bar_start == GetBarStart(tick_time, interval)
            k == KeyIndex(bs, tick.symbol, interval)
            fresh == NewBar(tick.symbol, bar_start, interval, tick.ltp, tick.volume)
        IN
        IF k = 0
        THEN ForIntervals(i + 1, Append(bs, fresh), em, st, tick, tick_time)
        ELSE IF ClosesBar(bar_start, bs[k].bar_start)
        THEN ForIntervals(i + 1, [bs EXCEPT ![k] = fresh],
                          Append(em, OutputBar(bs[k])),
                          Bump(st, "bars_emitted"), tick, tick_time)
        ELSE ForIntervals(i + 1,
                          [bs EXCEPT ![k] = UpdateBar(@, tick.ltp, tick.volume)],
                          em, st, tick, tick_time)

\* BarAggregator.on_tick.  A timezone-aware tick_time makes _get_bar_start
\* raise TypeError (aware minus naive) before any bar is touched.
OnTickResult(bs, em, st, tick) ==
    LET st1 == Bump(st, "ticks_processed")
        tt == ParseTime(tick.timestamp)
        skip == [bars |-> bs, emitted |-> em, stats |-> st1]
    IN
    IF tick.ltp <= 0 THEN skip
    ELSE IF tt.aware THEN skip
    ELSE ForIntervals(1, bs, em, st1, tick, tt.t)

OnTickRaises(tick) == tick.ltp > 0 /\ ParseTime(tick.timestamp).aware

\* mutant: flush forgets self._bars.clear()
AfterFlush_NoClear(bs) == bs

\* flush line 157: self._bars.clear()
AfterFlush(bs) == <<>>

(***************************************************************************)
(* Observation of a run of the aggregator: for every (symbol, interval)    *)
(* the priced ticks of the bucket that is current by the ticks' own        *)
(* timestamps, the buckets that closed, and the ticks counted.             *)
(***************************************************************************)
Summary(bucket) ==
    LET ps == bucket.prices
        RECURSIVE Hi(_)
        Hi(q) == IF Len(q) = 1 THEN q[1] ELSE Max(q[1], Hi(Tail(q)))
        RECURSIVE Lo(_)
        Lo(q) == IF Len(q) = 1 THEN q[1] ELSE Min(q[1], Lo(Tail(q)))
    IN [start |-> bucket.start, open |-> ps[1], high |-> Hi(ps), low |-> Lo(ps),
        close |-> ps[Len(ps)], volume |-> SeqSum(bucket.volumes),
        tick_count |-> Len(ps)]

NoBucket == [start |-> -1, prices |-> <<>>, volumes |-> <<>>]

\* the observation after a priced tick of symbol `sym` stamped t
ObserveKey(h, key, tick) ==
    LET b == GetBarStart(tick.timestamp.t, key[2])
        c == h.cur[key]
        one == [start |-> b, prices |-> <<tick.ltp>>, volumes |-> <<tick.volume>>]
    IN
    IF c.start = -1 THEN [cur |-> one, closed |-> h.closed[key]]
    ELSE IF b > c.start THEN [cur |-> one, closed |-> Append(h.closed[key], Summary(c))]
    ELSE IF b = c.start
    THEN [cur |-> [c EXCEPT !.prices = Append(@, tick.ltp),
                             !.volumes = Append(@, tick.volume)],
          closed |-> h.closed[key]]
    ELSE [cur |-> c, closed |-> h.closed[key]]

\* the ticks seen and, per key, the ticks that entered a bar
Observe(h, tick) ==
    [h EXCEPT
        !.ticks = @ + 1,
        !.lastOp = "tick",
        !.counted = [key \in Keys |->
                        IF key[1] = tick.symbol /\ tick.ltp > 0 /\ ~OnTickRaises(tick)
                        THEN @[key] + 1 ELSE @[key]]]

\* the same for a stream of ticks in timestamp order, with its buckets
ObserveStream(h, tick) ==
    IF tick.ltp <= 0 THEN [Observe(h, tick) EXCEPT !.lastKind = "unpriced"]
    ELSE
    [Observe(h, tick) EXCEPT
        !.lastKind = tick.timestamp.kind,
        !.lastTs[tick.symbol] = tick.timestamp.t,
        !.cur = [key \in Keys |-> IF key[1] = tick.symbol
                                  THEN ObserveKey(h, key, tick).cur ELSE @[key]],
        !.closed = [key \in Keys |-> IF key[1] = tick.symbol
                                     THEN ObserveKey(h, key, tick).closed ELSE @[key]]]

\* the timestamps of the ticks counted in each open bar (inBar) and in each
\* emitted bar (stamps, in the order of `emitted`), after on_tick took the
\* emitted bars from em to em2; and the keys whose open bar a running flush
\* has emitted (handed), less the keys whose bar on_tick replaced
Stamped(h, tick, em, em2) ==
    LET counts == tick.ltp > 0 /\ ~OnTickRaises(tick)
        KeyOf(bar) == <<bar.symbol, bar.interval_seconds>>
        closed == {KeyOf(em2[i]) : i \in (Len(em) + 1)..Len(em2)}
    IN
    [h EXCEPT
        !.handed = @ \ closed,
        !.stamps = @ \o [i \in 1..(Len(em2) - Len(em)) |->
                            h.inBar[KeyOf(em2[Len(em) + i])]],
        !.inBar = [key \in Keys |->
                      IF counts /\ key[1] = tick.symbol
                      THEN IF key \in closed THEN {tick.timestamp.t}
                           ELSE @[key] \cup {tick.timestamp.t}
                      ELSE @[key]]]

BarInit ==
    /\ bars = <<>>
    /\ aggStats = [ticks_processed |-> 0, bars_emitted |-> 0]
    /\ emitted = <<>>
    /\ barHist = [ticks |-> 0, lastOp |-> "init", flushes |-> 0, flushedAt |-> 0,
                  lastKind |-> "none",
                  lastTs |-> [sym \in Symbols |-> 0],
                  cur |-> [key \in Keys |-> NoBucket],
                  closed |-> [key \in Keys |-> <<>>],
                  counted |-> [key \in Keys |-> 0],
                  inBar |-> [key \in Keys |-> {}],
                  stamps |-> <<>>,
                  handed |-> {}]
    /\ bar_callbacks = 0
    /\ flush_task = NoFlush

\* BarAggregator.on_tick
OnTick ==
    /\ barHist.ticks < MaxBarTicks
    /\ \E tick \in TickInputs :
        \E r \in {OnTickResult(bars, emitted, aggStats, tick)} :
        /\ bars' = r.bars
        /\ emitted' = r.emitted
        /\ aggStats' = r.stats
        /\ barHist' = Stamped(Observe(barHist, tick), tick, emitted, r.emitted)
    /\ UNCHANGED <<bar_callbacks, flush_task>>
    /\ UNCHANGED <<bridgeVars, orderVars, adapterVars>>

\* BarAggregator.flush, run to its end with no other task in between
Flush ==
    /\ flush_task.pc = "idle"
    /\ UNCHANGED <<bar_callbacks, flush_task>>
    /\ emitted' = emitted \o SeqMap(bars, OutputBar)
    /\ aggStats' = [aggStats EXCEPT !.bars_emitted = @ + Len(bars)]
    /\ bars' = AfterFlush(bars)
    /\ barHist' = [barHist EXCEPT
                      !.lastOp = "flush", !.flushes = Min(@ + 1, 1),
                      !.flushedAt = Len(emitted'),
                      !.stamps = @ \o [i \in 1..Len(bars) |->
                                          barHist.inBar[<<bars[i].symbol,
                                                          bars[i].interval_seconds>>]],
                      !.inBar = [key \in Keys |-> {}]]
    /\ UNCHANGED <<bridgeVars, orderVars, adapterVars>>

BridgeIdle ==
    /\ queue = <<>>
    /\ subscribers = <<>>
    /\ running = FALSE
    /\ loop = "None"
    /\ task = "None"
    /\ stats = <<>>
    /\ prom = <<>>
    /\ callbacks = <<>>
    /\ consumer = "none"
    /\ calls = {}
    /\ stopper = "idle"
    /\ producer = <<>>
    /\ hist = <<>>

\* BarAggregator.on_tick fed a stream whose timestamps never decrease per
\* symbol
OnStreamTick ==
    /\ barHist.ticks < MaxStreamTicks
    /\ \E tick \in StreamInputs :
        \E r \in {OnTickResult(bars, emitted, aggStats, tick)} :
        /\ tick.timestamp.t >= barHist.lastTs[tick.symbol]
        /\ bars' = r.bars
        /\ emitted' = r.emitted
        /\ aggStats' = r.stats
        /\ barHist' = Stamped(ObserveStream(barHist, tick), tick, emitted, r.emitted)
    /\ UNCHANGED <<bar_callbacks, flush_task>>
    /\ UNCHANGED <<bridgeVars, orderVars, adapterVars>>

InitBars == BarInit /\ BridgeIdle /\ GttIdle /\ BoIdle /\ AdapterIdle

BarNext ==
    \/ OnTick
    \/ Flush

SpecBars == InitBars /\ [][BarNext]_vars

StreamNext == OnStreamTick

SpecBarStream == InitBars /\ [][StreamNext]_vars

(***************************************************************************)
(* flush() in a task of its own.  With a callback registered, _emit_bar    *)
(* awaits asyncio.gather and the task is suspended there; the consumer's   *)
(* on_tick calls run in between.                                           *)
(***************************************************************************)
KeyOfBar(bar) == <<bar.symbol, bar.interval_seconds>>

\* BarAggregator.on_completed_bar
OnCompletedBar ==
    /\ bar_callbacks = 0
    /\ bar_callbacks' = bar_callbacks + 1
    /\ UNCHANGED <<bars, aggStats, emitted, barHist, flush_task>>
    /\ UNCHANGED <<bridgeVars, orderVars, adapterVars>>

\* _emit_bar lines 129-151 for the open bar of `key`, up to the await
EmitOpenBar(key) ==
    LET k == KeyIndex(bars, key[1], key[2]) IN
    /\ emitted' = Append(emitted, OutputBar(bars[k]))
    /\ aggStats' = Bump(aggStats, "bars_emitted")
    /\ barHist' = [barHist EXCEPT !.stamps = Append(@, barHist.inBar[key]),
                                  !.handed = @ \cup {key}]

\* flush lines 155-157, the rest of the call from self._bars.clear() on
FlushEnds ==
    /\ bars' = AfterFlush(bars)
    /\ flush_task' = NoFlush
    /\ barHist' = [barHist EXCEPT
                      !.lastOp = "flush", !.flushes = Min(@ + 1, 1),
                      !.flushedAt = Len(emitted),
                      !.inBar = [key \in Keys |-> {}],
                      !.handed = {}]
    /\ UNCHANGED <<emitted, aggStats>>

\* flush is called in its own task and runs to its first suspension: the
\* gather of the first bar's callbacks.  Without a callback, or without an
\* open bar, nothing suspends it and it runs to its end.
FlushCall ==
    /\ flush_task.pc = "idle"
    /\ IF bar_callbacks = 0 \/ bars = <<>>
       THEN /\ emitted' = emitted \o SeqMap(bars, OutputBar)
            /\ aggStats' = [aggStats EXCEPT !.bars_emitted = @ + Len(bars)]
            /\ bars' = AfterFlush(bars)
            /\ barHist' = [barHist EXCEPT
                              !.lastOp = "flush", !.flushes = Min(@ + 1, 1),
                              !.flushedAt = Len(emitted'),
                              !.stamps = @ \o [i \in 1..Len(bars) |->
                                                  barHist.inBar[KeyOfBar(bars[i])]],
                              !.inBar = [key \in Keys |-> {}]]
            /\ UNCHANGED flush_task
       ELSE /\ flush_task' = [pc |-> "gather", keys |-> SeqMap(bars, KeyOfBar),
                              i |-> 1]
            /\ EmitOpenBar(KeyOfBar(bars[1]))
            /\ UNCHANGED bars
    /\ UNCHANGED bar_callbacks
    /\ UNCHANGED <<bridgeVars, orderVars, adapterVars>>

\* the gather is over: flush goes on to the next key of its list, or leaves
\* the loop and clears self._bars
FlushResume ==
    /\ flush_task.pc = "gather"
    /\ IF flush_task.i < Len(flush_task.keys)
       THEN /\ flush_task' = [flush_task EXCEPT !.i = @ + 1]
            /\ EmitOpenBar(flush_task.keys[flush_task.i + 1])
            /\ UNCHANGED bars
       ELSE FlushEnds
    /\ UNCHANGED bar_callbacks
    /\ UNCHANGED <<bridgeVars, orderVars, adapterVars>>

BarFlushNext ==
    \/ OnCompletedBar
    \/ OnTick
    \/ FlushCall
    \/ FlushResume

SpecBarsFlush == InitBars /\ [][BarFlushNext]_vars

(***************************************************************************)
(* AdvancedOrderManager: the GTT engine.  An order id is the order's       *)
(* position in gtt_orders (the dict keeps insertion order and ids are      *)
(* never reused); created_at and triggered_at are wall-clock stamps and    *)
(* are left out.  The order callback is the caller's code: it returns or   *)
(* raises.                                                                 *)
(***************************************************************************)
MaxGttOrders == 2    \* GTT orders placed in a run

GttPrices == {1, 2, 3}

\* the arguments of the place_gtt calls of a run
GttShapes ==
    { [symbol |-> "A", trigger_price |-> 2, limit_price |-> 3, quantity |-> 10,
       side |-> "BUY", condition |-> "GTE"],
      [symbol |-> "A", trigger_price |-> 2, limit_price |-> 1, quantity |-> 5,
       side |-> "SELL", condition |-> "LTE"],
      [symbol |-> "B", trigger_price |-> 2, limit_price |-> 2, quantity |-> 10,
       side |-> "BUY", condition |-> "GTE"] }

\* the arguments of the place_oco calls of a run: a target above the stop,
\* and a target below the stop (one price can then satisfy both legs)
OcoShapes ==
    { [symbol |-> "A", target_price |-> 3, stop_loss_price |-> 1, quantity |-> 10],
      [symbol |-> "A", target_price |-> 1, stop_loss_price |-> 3, quantity |-> 10] }

\* GTTOrder.__init__
GTTOrder(symbol, trigger_price, limit_price, quantity, side, condition) ==
    [symbol |-> symbol, trigger_price |-> trigger_price,
     limit_price |-> limit_price, quantity |-> quantity, side |-> side,
     condition |-> condition, status |-> "ACTIVE"]

\* mutant: a GTE order needs a price strictly above its trigger
CheckTrigger_StrictGte(gtt, current_price) ==
    IF gtt.status /= "ACTIVE" THEN FALSE
    ELSE IF gtt.condition = "GTE" /\ current_price > gtt.trigger_price THEN TRUE
    ELSE IF gtt.condition = "LTE" /\ current_price <= gtt.trigger_price THEN TRUE
    ELSE FALSE

\* GTTOrder.check_trigger
CheckTrigger(gtt, current_price) ==
    IF gtt.status /= "ACTIVE" THEN FALSE
    ELSE IF gtt.condition = "GTE" /\ current_price >= gtt.trigger_price THEN TRUE
    ELSE IF gtt.condition = "LTE" /\ current_price <= gtt.trigger_price THEN TRUE
    ELSE FALSE

\* GTTOrder.to_dict
ToDict(id, gtt) ==
    [id |-> id, symbol |-> gtt.symbol, trigger_price |-> gtt.trigger_price,
     limit_price |-> gtt.limit_price, quantity |-> gtt.quantity,
     side |-> gtt.side, condition |-> gtt.condition, status |-> gtt.status]

\* the dict check_triggers hands to the order callback
GttEvent(id, gtt) ==
    [symbol |-> gtt.symbol, side |-> gtt.side, quantity |-> gtt.quantity,
     price |-> gtt.limit_price, order_type |-> "LIMIT", source |-> "GTT",
     gtt_id |-> id]

\* self.oco_pairs.get(id), 0 for None
OcoPartner(pairs, id) ==
    IF \E p \in pairs : p[1] = id
    THEN (CHOOSE p \in pairs : p[1] = id)[2]
    ELSE 0

\* mutant: cancel_gtt cancels an order in any status
Cancellable_AnyStatus(gtt) == TRUE

\* cancel_gtt line 134: only an ACTIVE order is cancelled
Cancellable(gtt) == gtt.status = "ACTIVE"

\* AdvancedOrderManager.cancel_gtt
CancelGttResult(os, order_id) ==
    IF order_id \notin 1..Len(os) \/ ~Cancellable(os[order_id])
    THEN [orders |-> os, ret |-> FALSE]
    ELSE [orders |-> [os EXCEPT ![order_id].status = "CANCELLED"], ret |-> TRUE]

\* mutant: a fired order is left ACTIVE
MarkTriggered_StaysActive(gtt) == gtt

\* check_triggers line 152
MarkTriggered(gtt) == [gtt EXCEPT !.status = "TRIGGERED"]

\* mutant: the OCO partner of a fired order is left alone
CancelPartner_Skipped(os, partner_id) == os

\* check_triggers lines 174-176
CancelPartner(os, partner_id) ==
    IF partner_id /= 0 THEN CancelGttResult(os, partner_id).orders ELSE os

\* check_triggers lines 147-177: the loop over self.gtt_orders from the i-th
\* order on.  The callback raises when it is called for order `raiseAt`
\* (0: it never raises); the exception leaves check_triggers at once.
RECURSIVE CheckFrom(_, _, _, _, _, _, _, _, _)
CheckFrom(i, os, ev, th, pairs, cb, symbol, current_price, raiseAt) ==
    IF i > Len(os)
    THEN [orders |-> os, events |-> ev, history |-> th, raised |-> FALSE, at |-> 0]
    ELSE IF os[i].symbol /= symbol \/ os[i].status /= "ACTIVE"
    THEN CheckFrom(i + 1, os, ev, th, pairs, cb, symbol, current_price, raiseAt)
    ELSE IF ~CheckTrigger(os[i], current_price)
    THEN CheckFrom(i + 1, os, ev, th, pairs, cb, symbol, current_price, raiseAt)
    ELSE
        LET os1 == [os EXCEPT ![i] = MarkTriggered(@)]
            ev1 == IF cb /= "None" THEN Append(ev, GttEvent(i, os1[i])) ELSE ev
        IN
        IF cb /= "None" /\ raiseAt = i
        THEN [orders |-> os1, events |-> ev1, history |-> th, raised |-> TRUE, at |-> i]
        ELSE CheckFrom(i + 1, CancelPartner(os1, OcoPartner(pairs, i)), ev1,
                       Append(th, ToDict(i, os1[i])), pairs, cb, symbol,
                       current_price, raiseAt)

GttInit ==
    /\ gtt_orders = <<>>
    /\ oco_pairs = {}
    /\ order_callback = "None"
    /\ triggered_history = <<>>
    /\ gttEvents = <<>>
    /\ gttHist = [op |-> "init", symbol |-> "", price |-> 0, id |-> 0,
                  ret |-> FALSE, raised |-> FALSE]

GttCall(op, symbol, price, id, ret, raised) ==
    [op |-> op, symbol |-> symbol, price |-> price, id |-> id, ret |-> ret,
     raised |-> raised]

\* AdvancedOrderManager.set_order_callback
SetOrderCallback ==
    /\ order_callback' = "set"
    /\ gttHist' = GttCall("set_order_callback", "", 0, 0, FALSE, FALSE)
    /\ UNCHANGED <<gtt_orders, oco_pairs, triggered_history, gttEvents>>
    /\ UNCHANGED <<bridgeVars, barVars, boVars, adapterVars>>

\* AdvancedOrderManager.place_gtt
PlaceGtt ==
    /\ Len(gtt_orders) < MaxGttOrders
    /\ \E a \in GttShapes :
        gtt_orders' = Append(gtt_orders,
                             GTTOrder(a.symbol, a.trigger_price, a.limit_price,
                                      a.quantity, a.side, a.condition))
    /\ gttHist' = GttCall("place_gtt", "", 0, Len(gtt_orders) + 1, FALSE, FALSE)
    /\ UNCHANGED <<oco_pairs, order_callback, triggered_history, gttEvents>>
    /\ UNCHANGED <<bridgeVars, barVars, boVars, adapterVars>>

\* AdvancedOrderManager.place_oco
PlaceOco ==
    /\ Len(gtt_orders) + 2 <= MaxGttOrders
    /\ \E a \in OcoShapes :
        LET target_id == Len(gtt_orders) + 1
            sl_id == Len(gtt_orders) + 2
        IN
        /\ gtt_orders' = gtt_orders \o
                <<GTTOrder(a.symbol, a.target_price, a.target_price, a.quantity,
                           "SELL", "GTE"),
                  GTTOrder(a.symbol, a.stop_loss_price, a.stop_loss_price,
                           a.quantity, "SELL", "LTE")>>
        /\ oco_pairs' = oco_pairs \cup {<<target_id, sl_id>>, <<sl_id, target_id>>}
        /\ gttHist' = GttCall("place_oco", "", 0, target_id, FALSE, FALSE)
    /\ UNCHANGED <<order_callback, triggered_history, gttEvents>>
    /\ UNCHANGED <<bridgeVars, barVars, boVars, adapterVars>>

\* AdvancedOrderManager.cancel_gtt, also with an id that was never issued
CancelGtt ==
    /\ \E order_id \in 1..(Len(gtt_orders) + 1) :
        \E r \in {CancelGttResult(gtt_orders, order_id)} :
        /\ gtt_orders' = r.orders
        /\ gttHist' = GttCall("cancel_gtt", "", 0, order_id, r.ret, FALSE)
    /\ UNCHANGED <<oco_pairs, order_callback, triggered_history, gttEvents>>
    /\ UNCHANGED <<bridgeVars, barVars, boVars, adapterVars>>

\* AdvancedOrderManager.check_triggers
CheckTriggers ==
    /\ \E symbol \in Symbols, current_price \in GttPrices,
          raiseAt \in 0..Len(gtt_orders) :
        \E r \in {CheckFrom(1, gtt_orders, gttEvents, triggered_history,
                            oco_pairs, order_callback, symbol, current_price,
                            raiseAt)} :
        /\ raiseAt /= 0 => r.raised
        /\ gtt_orders' = r.orders
        /\ gttEvents' = r.events
        /\ triggered_history' = r.history
        /\ gttHist' = GttCall("check_triggers", symbol, current_price, r.at,
                              FALSE, r.raised)
    /\ UNCHANGED <<oco_pairs, order_callback>>
    /\ UNCHANGED <<bridgeVars, barVars, boVars, adapterVars>>

InitGtt == GttInit /\ BridgeIdle /\ BarIdle /\ BoIdle /\ AdapterIdle

GttNext ==
    \/ SetOrderCallback
    \/ PlaceGtt
    \/ PlaceOco
    \/ CancelGtt
    \/ CheckTriggers

SpecGTT == InitGtt /\ [][GttNext]_vars

(***************************************************************************)
(* BracketOrderManager.  An order id is the order's position in orders;    *)
(* "" (no id) is 0.  created_at, entered_at and exited_at are wall-clock   *)
(* stamps and are left out.  The order callback is the caller's code: it   *)
(* returns or raises.                                                      *)
(***************************************************************************)
MaxBrackets == 1     \* bracket orders stored in a run of a manager
MaxTogether == 2     \* bracket orders stored in a run with orders side by side

BoPrices == {1, 3, 5}
NewStops == {3, 6}

\* the arguments of the place_bracket_order calls of a run: three with
\* stop-loss and target on the right sides of the entry, six without
BracketShapes ==
    { [symbol |-> "A", side |-> "BUY", quantity |-> 10, entry_price |-> 3,
       stop_loss |-> 1, target |-> 5, order_type |-> "LIMIT"],
      [symbol |-> "A", side |-> "SELL", quantity |-> 5, entry_price |-> 3,
       stop_loss |-> 5, target |-> 1, order_type |-> "LIMIT"],
      [symbol |-> "B", side |-> "BUY", quantity |-> 10, entry_price |-> 3,
       stop_loss |-> 2, target |-> 4, order_type |-> "MARKET"],
      [symbol |-> "A", side |-> "BUY", quantity |-> 10, entry_price |-> 3,
       stop_loss |-> 4, target |-> 2, order_type |-> "LIMIT"],
      [symbol |-> "A", side |-> "BUY", quantity |-> 10, entry_price |-> 3,
       stop_loss |-> 3, target |-> 5, order_type |-> "MARKET"],
      [symbol |-> "A", side |-> "BUY", quantity |-> 10, entry_price |-> 3,
       stop_loss |-> 1, target |-> 3, order_type |-> "LIMIT"],
      [symbol |-> "A", side |-> "SELL", quantity |-> 5, entry_price |-> 3,
       stop_loss |-> 2, target |-> 4, order_type |-> "MARKET"],
      [symbol |-> "A", side |-> "SELL", quantity |-> 5, entry_price |-> 3,
       stop_loss |-> 3, target |-> 1, order_type |-> "LIMIT"],
      [symbol |-> "A", side |-> "SELL", quantity |-> 5, entry_price |-> 3,
       stop_loss |-> 5, target |-> 3, order_type |-> "LIMIT"] }

\* BracketOrder.__init__
BracketOrder(a) ==
    [symbol |-> a.symbol, side |-> a.side, quantity |-> a.quantity,
     entry_price |-> a.entry_price, stop_loss |-> a.stop_loss,
     target |-> a.target, order_type |-> a.order_type, status |-> "PENDING",
     entry_filled |-> FALSE,
     exit_side |-> IF a.side = "BUY" THEN "SELL" ELSE "BUY",
     exit_reason |-> "None", pnl |-> 0]

\* BracketOrder.check_entry
CheckEntry(bo, current_price) ==
    IF bo.status /= "PENDING" THEN FALSE
    ELSE IF bo.side = "BUY" /\ current_price <= bo.entry_price THEN TRUE
    ELSE IF bo.side = "SELL" /\ current_price >= bo.entry_price THEN TRUE
    ELSE FALSE

\* BracketOrder.check_exit
CheckExit(bo, current_price) ==
    IF bo.status /= "ENTERED" THEN "None"
    ELSE IF bo.side = "BUY"
    THEN IF current_price <= bo.stop_loss THEN "STOP_LOSS"
         ELSE IF current_price >= bo.target THEN "TARGET"
         ELSE "None"
    ELSE IF current_price >= bo.stop_loss THEN "STOP_LOSS"
         ELSE IF current_price <= bo.target THEN "TARGET"
         ELSE "None"

\* BracketOrder.to_dict
BoToDict(id, bo) ==
    [id |-> id, symbol |-> bo.symbol, side |-> bo.side, quantity |-> bo.quantity,
     entry_price |-> bo.entry_price, stop_loss |-> bo.stop_loss,
     target |-> bo.target, status |-> bo.status, pnl |-> bo.pnl,
     exit_reason |-> bo.exit_reason]

\* mutant: a stop-loss or target equal to the entry price is accepted
Rejected_OnlyBeyondEntry(a) ==
    IF a.side = "BUY"
    THEN a.stop_loss > a.entry_price \/ a.target < a.entry_price
    ELSE a.stop_loss < a.entry_price \/ a.target > a.entry_price

\* place_bracket_order lines 129-142: the validation that returns ""
Rejected(a) ==
    IF a.side = "BUY"
    THEN a.stop_loss >= a.entry_price \/ a.target <= a.entry_price
    ELSE a.stop_loss <= a.entry_price \/ a.target >= a.entry_price

\* the dict _fill_entry hands to the order callback
EntryEvent(id, bo, price) ==
    [symbol |-> bo.symbol, side |-> bo.side, quantity |-> bo.quantity,
     price |-> price, order_type |-> "MARKET", source |-> "BRACKET_ENTRY",
     bracket_id |-> id]

\* the dict _fill_exit hands to the order callback
ExitEvent(id, bo, price, reason) ==
    [symbol |-> bo.symbol, side |-> bo.exit_side, quantity |-> bo.quantity,
     price |-> price, order_type |-> "MARKET",
     source |-> IF reason = "TARGET" THEN "BRACKET_TARGET" ELSE "BRACKET_STOP_LOSS",
     bracket_id |-> id]

\* _fill_entry lines 187-188
EntryFilled(bo) == [bo EXCEPT !.status = "ENTERED", !.entry_filled = TRUE]

\* mutant: the BUY formula is used for both sides
ExitFilled_BuyFormula(bo, price, reason) ==
    [bo EXCEPT !.exit_reason = reason,
               !.pnl = (price - bo.entry_price) * bo.quantity,
               !.status = IF reason = "TARGET" THEN "COMPLETED" ELSE "STOPPED_OUT"]

\* _fill_exit lines 207-214
ExitFilled(bo, price, reason) ==
    [bo EXCEPT !.exit_reason = reason,
               !.pnl = IF bo.side = "BUY"
                       THEN (price - bo.entry_price) * bo.quantity
                       ELSE (bo.entry_price - price) * bo.quantity,
               !.status = IF reason = "TARGET" THEN "COMPLETED" ELSE "STOPPED_OUT"]

\* mutant: an order that has just entered is evaluated for exit on the same
\* price
FillEntry_ThenExit(i, os, ev, co, cb, price, fails) ==
    LET entered == EntryFilled(os[i])
        exit_reason == CheckExit(entered, price)
        bo == IF exit_reason = "None" THEN entered
              ELSE ExitFilled(entered, price, exit_reason)
        ev1 == IF cb /= "None" THEN Append(ev, EntryEvent(i, entered, price)) ELSE ev
    IN
    [orders |-> [os EXCEPT ![i] = bo],
     events |-> IF cb /= "None" /\ exit_reason /= "None"
                THEN Append(ev1, ExitEvent(i, bo, price, exit_reason)) ELSE ev1,
     completed |-> co,
     raised |-> cb /= "None" /\ fails]

\* _fill_entry: the order callback raises iff fails
FillEntry(i, os, ev, co, cb, price, fails) ==
    LET os1 == [os EXCEPT ![i] = EntryFilled(@)] IN
    [orders |-> os1,
     events |-> IF cb /= "None" THEN Append(ev, EntryEvent(i, os1[i], price)) ELSE ev,
     completed |-> co,
     raised |-> cb /= "None" /\ fails]

\* _fill_exit: the order callback raises iff fails, and then
\* completed_orders is not appended to
FillExit(i, os, ev, co, cb, price, reason, fails) ==
    LET os1 == [os EXCEPT ![i] = ExitFilled(@, price, reason)]
        raises == cb /= "None" /\ fails
    IN
    [orders |-> os1,
     events |-> IF cb /= "None"
                THEN Append(ev, ExitEvent(i, os1[i], price, reason)) ELSE ev,
     completed |-> IF raises THEN co ELSE Append(co, BoToDict(i, os1[i])),
     raised |-> raises]

\* check_prices lines 171-183: the loop over self.orders from the i-th order
\* on.  The callback raises when it is called for order `raiseAt` (0: it
\* never raises); the exception leaves check_prices at once.
RECURSIVE PricesFrom(_, _, _, _, _, _, _, _)
PricesFrom(i, os, ev, co, cb, symbol, current_price, raiseAt) ==
    LET Go(r) == IF r.raised
                 THEN [orders |-> r.orders, events |-> r.events,
                       completed |-> r.completed, raised |-> TRUE]
                 ELSE PricesFrom(i + 1, r.orders, r.events, r.completed, cb,
                                 symbol, current_price, raiseAt)
        same == [orders |-> os, events |-> ev, completed |-> co, raised |-> FALSE]
    IN
    IF i > Len(os)
    THEN same
    ELSE IF os[i].symbol /= symbol THEN Go(same)
    ELSE IF os[i].status = "PENDING" /\ CheckEntry(os[i], current_price)
    THEN Go(FillEntry(i, os, ev, co, cb, current_price, raiseAt = i))
    ELSE IF os[i].status = "ENTERED"
    THEN LET exit_reason == CheckExit(os[i], current_price) IN
         IF exit_reason /= "None"
         THEN Go(FillExit(i, os, ev, co, cb, current_price, exit_reason, raiseAt = i))
         ELSE Go(same)
    ELSE Go(same)

\* mutant: an ENTERED order can be cancelled as well
CanCancel_Entered(bo) == bo.status \in {"PENDING", "ENTERED"}

\* cancel line 240
CanCancel(bo) == bo.status = "PENDING"

\* BracketOrderManager.cancel
CancelResult(os, order_id) ==
    IF order_id \notin 1..Len(os) THEN [orders |-> os, ret |-> FALSE]
    ELSE IF CanCancel(os[order_id])
    THEN [orders |-> [os EXCEPT ![order_id].status = "CANCELLED"], ret |-> TRUE]
    ELSE [orders |-> os, ret |-> FALSE]

\* mutant: any new value different from the current stop is taken
Tightens_AnyChange(bo, new_sl) == new_sl /= bo.stop_loss

\* modify_sl lines 254 and 258: the stop moves only in the favorable direction
Tightens(bo, new_sl) ==
    \/ bo.side = "BUY" /\ new_sl > bo.stop_loss
    \/ bo.side = "SELL" /\ new_sl < bo.stop_loss

\* BracketOrderManager.modify_sl
ModifySlResult(os, order_id, new_sl) ==
    IF order_id \notin 1..Len(os) \/ os[order_id].status /= "ENTERED"
    THEN [orders |-> os, ret |-> FALSE]
    ELSE IF Tightens(os[order_id], new_sl)
    THEN [orders |-> [os EXCEPT ![order_id].stop_loss = new_sl], ret |-> TRUE]
    ELSE [orders |-> os, ret |-> FALSE]

\* stop-loss and target on the sides of the entry that the order's side
\* requires: BUY stop_loss < entry_price < target, SELL the reverse
RightSides(a) ==
    IF a.side = "BUY"
    THEN a.stop_loss < a.entry_price /\ a.entry_price < a.target
    ELSE a.target < a.entry_price /\ a.entry_price < a.stop_loss

\* what is kept of the arguments of a place_bracket_order call
PlaceArgs(a) == [right_sides |-> RightSides(a), order_type |-> a.order_type]
NoArgs == [right_sides |-> TRUE, order_type |-> ""]

\* a call of the manager: its name, its arguments and how it ended
BoCall(op, symbol, price, id, ret, raised, args) ==
    [op |-> op, symbol |-> symbol, price |-> price, id |-> id, ret |-> ret,
     raised |-> raised, args |-> args]

BoInit ==
    /\ orders = <<>>
    /\ bo_callback = "None"
    /\ completed_orders = <<>>
    /\ boEvents = <<>>
    /\ boHist = BoCall("init", "", 0, 0, FALSE, FALSE, NoArgs)

\* BracketOrderManager.set_order_callback, called when the manager is set
\* up, before the first order
SetBracketCallback ==
    /\ orders = <<>>
    /\ bo_callback' = "set"
    /\ boHist' = BoCall("set_order_callback", "", 0, 0, FALSE, FALSE, NoArgs)
    /\ UNCHANGED <<orders, completed_orders, boEvents>>
    /\ UNCHANGED <<bridgeVars, barVars, gttVars, adapterVars>>

\* BracketOrderManager.place_bracket_order; ret says that the call
\* returned an id and not ""
PlaceResult(os, ev, co, cb, a, fails) ==
    IF Rejected(a)
    THEN [orders |-> os, events |-> ev, completed |-> co, raised |-> FALSE,
          ret |-> FALSE]
    ELSE LET id == Len(os) + 1
             stored == Append(os, BracketOrder(a))
             r == IF a.order_type = "MARKET"
                  THEN FillEntry(id, stored, ev, co, cb, a.entry_price, fails)
                  ELSE [orders |-> stored, events |-> ev, completed |-> co,
                        raised |-> FALSE]
         IN [orders |-> r.orders, events |-> r.events, completed |-> r.completed,
             raised |-> r.raised, ret |-> ~r.raised]

\* place_bracket_order on a manager that holds at most MaxBrackets orders
PlaceBracketOrder ==
    /\ \E a \in BracketShapes, fails \in BOOLEAN :
        \E r \in {PlaceResult(orders, boEvents, completed_orders, bo_callback,
                              a, fails)} :
        /\ Len(r.orders) <= MaxBrackets
        /\ fails <=> r.raised
        /\ orders' = r.orders
        /\ boEvents' = r.events
        /\ completed_orders' = r.completed
        /\ boHist' = BoCall("place_bracket_order", "", 0, 0, r.ret, r.raised,
                            PlaceArgs(a))
    /\ UNCHANGED bo_callback
    /\ UNCHANGED <<bridgeVars, barVars, gttVars, adapterVars>>

\* place_bracket_order on a manager that holds up to MaxTogether orders side
\* by side
PlaceBracketOrderBeside ==
    /\ \E a \in BracketShapes, fails \in BOOLEAN :
        \E r \in {PlaceResult(orders, boEvents, completed_orders, bo_callback,
                              a, fails)} :
        /\ Len(r.orders) <= MaxTogether
        /\ fails <=> r.raised
        /\ orders' = r.orders
        /\ boEvents' = r.events
        /\ completed_orders' = r.completed
        /\ boHist' = BoCall("place_bracket_order", "", 0, 0, r.ret, r.raised,
                            PlaceArgs(a))
    /\ UNCHANGED bo_callback
    /\ UNCHANGED <<bridgeVars, barVars, gttVars, adapterVars>>

\* BracketOrderManager.check_prices
CheckPrices ==
    /\ \E symbol \in Symbols, current_price \in BoPrices, raiseAt \in 0..Len(orders) :
        \E r \in {PricesFrom(1, orders, boEvents, completed_orders, bo_callback,
                             symbol, current_price, raiseAt)} :
        /\ raiseAt /= 0 <=> r.raised
        /\ orders' = r.orders
        /\ boEvents' = r.events
        /\ completed_orders' = r.completed
        /\ boHist' = BoCall("check_prices", symbol, current_price, 0, FALSE,
                            r.raised, NoArgs)
    /\ UNCHANGED bo_callback
    /\ UNCHANGED <<bridgeVars, barVars, gttVars, adapterVars>>

\* BracketOrderManager.cancel, also with an id that was never issued
Cancel ==
    /\ \E order_id \in 1..(Len(orders) + 1) :
        \E r \in {CancelResult(orders, order_id)} :
        /\ orders' = r.orders
        /\ boHist' = BoCall("cancel", "", 0, order_id, r.ret, FALSE, NoArgs)
    /\ UNCHANGED <<bo_callback, completed_orders, boEvents>>
    /\ UNCHANGED <<bridgeVars, barVars, gttVars, adapterVars>>

\* BracketOrderManager.modify_sl; `price` of the call is new_sl
ModifySl ==
    /\ \E order_id \in 1..(Len(orders) + 1), new_sl \in NewStops :
        \E r \in {ModifySlResult(orders, order_id, new_sl)} :
        /\ orders' = r.orders
        /\ boHist' = BoCall("modify_sl", "", new_sl, order_id, r.ret, FALSE, NoArgs)
    /\ UNCHANGED <<bo_callback, completed_orders, boEvents>>
    /\ UNCHANGED <<bridgeVars, barVars, gttVars, adapterVars>>

InitBracket == BoInit /\ BridgeIdle /\ BarIdle /\ GttIdle /\ AdapterIdle

BracketNext ==
    \/ SetBracketCallback
    \/ PlaceBracketOrder
    \/ CheckPrices
    \/ Cancel
    \/ ModifySl

SpecBracket == InitBracket /\ [][BracketNext]_vars

BracketsTogetherNext ==
    \/ SetBracketCallback
    \/ PlaceBracketOrderBeside
    \/ CheckPrices
    \/ Cancel
    \/ ModifySl

SpecBracketsTogether == InitBracket /\ [][BracketsTogetherNext]_vars


(***************************************************************************)
(* TokenBucketRateLimiter (src/src/adapters/angel/rate_limiter.py).        *)
(*                                                                         *)
(* Time is counted in clock ticks of 1/TicksPerSecond second and tokens in *)
(* units of 1/TicksPerSecond token, so that elapsed * rate is the whole    *)
(* number  ticks * rate  of token units.  The clock is kept as the time    *)
(* since last_update; _refill takes min(capacity, ...), so the time beyond *)
(* the one that fills an empty bucket is not counted.                      *)
(***************************************************************************)
TicksPerSecond == 20

\* the rates of the limiters under test (tokens per second)
Rates == {10, 20}

\* the numbers of tokens a caller asks for
Requests == 1..(MaxCapacity + 1)

\* token units of n tokens
Units(n) == n * TicksPerSecond

\* the ticks after which an empty bucket of this capacity is full
FillTicks(capacity, rate) == (Units(capacity) + rate - 1) \div rate

\* 1.0 / self.rate seconds, in ticks (lines 52 and 59)
SleepTicks(rate) == (TicksPerSecond + rate - 1) \div rate

\* _refill lines 27-29
Refilled(tokens, since, rate, capacity) ==
    Min(Units(capacity), tokens + since * rate)

\* mutant: the bucket must hold more than the tokens asked for
Sufficient_Strict(tokens, n) == tokens > Units(n)

\* acquire line 39
Sufficient(tokens, n) == tokens >= Units(n)

\* mutant: the critical section is entered whoever holds the lock
LockFree_NoLock(holder) == TRUE

\* `with self.lock` can be entered
LockFree(holder) == holder = 0

\* the lock after caller p left the with block
Released(holder, p) == IF holder = p THEN 0 ELSE holder

\* __init__ lines 18-22 with the callers not yet calling
RlInit(rate, capacity) ==
    /\ rl_rate = rate
    /\ rl_capacity = capacity
    /\ rl_tokens = Units(capacity)
    /\ rl_since = 0
    /\ rl_lock = 0
    /\ rl_callers = [p \in CallerIds |-> IdleCaller]
    /\ rl_allowance = Units(capacity)

\* a thread or task calls acquire, acquire_async or wait_and_acquire
Call(p) ==
    /\ rl_test.phase = "none"
    /\ rl_callers[p].pc = "idle"
    /\ \E kind \in {"acquire", "acquire_async", "wait_and_acquire"},
          n \in Requests :
        rl_callers' = [rl_callers EXCEPT
                          ![p] = [IdleCaller EXCEPT !.pc = "acquire",
                                                    !.kind = kind, !.n = n]]
    /\ UNCHANGED <<pipelineVars, clientVars, rl_rate, rl_capacity, rl_tokens, rl_since,
                   rl_lock, rl_allowance, rl_test>>

\* acquire lines 37-38: enter `with self.lock` and run self._refill(),
\* which no other caller can observe half done
Lock(p) ==
    /\ rl_callers[p].pc = "acquire"
    /\ LockFree(rl_lock)
    /\ rl_lock' = p
    /\ rl_tokens' = Refilled(rl_tokens, rl_since, rl_rate, rl_capacity)
    /\ rl_since' = 0
    /\ rl_callers' = [rl_callers EXCEPT ![p].pc = "check"]
    /\ UNCHANGED <<pipelineVars, clientVars, rl_rate, rl_capacity, rl_allowance, rl_test>>

\* acquire line 39 and, when the tokens do not suffice, line 42 with what
\* the caller does with the False: return it, or sleep 1.0 / rate and retry
Check(p) ==
    LET c == rl_callers[p] IN
    /\ c.pc = "check"
    /\ IF Sufficient(rl_tokens, c.n)
       THEN /\ rl_callers' = [rl_callers EXCEPT ![p].pc = "deduct"]
            /\ UNCHANGED rl_lock
       ELSE /\ rl_lock' = Released(rl_lock, p)
            /\ rl_callers' =
                 [rl_callers EXCEPT
                    ![p] = IF c.kind = "acquire"
                           THEN [c EXCEPT !.pc = "returned", !.ret = FALSE]
                           ELSE [c EXCEPT !.pc = "asleep",
                                          !.sleep = SleepTicks(rl_rate)]]
    /\ UNCHANGED <<pipelineVars, clientVars, rl_rate, rl_capacity, rl_tokens, rl_since,
                   rl_allowance, rl_test>>

\* acquire lines 40-41: deduct, leave the with block, return True
Deduct(p) ==
    LET c == rl_callers[p] IN
    /\ c.pc = "deduct"
    /\ rl_tokens' = rl_tokens - Units(c.n)
    /\ rl_lock' = Released(rl_lock, p)
    /\ rl_callers' = [rl_callers EXCEPT ![p].pc = "returned", ![p].ret = TRUE]
    /\ rl_allowance' = rl_allowance - Units(c.n)
    /\ UNCHANGED <<pipelineVars, clientVars, rl_rate, rl_capacity, rl_since, rl_test>>

\* asyncio.sleep / time.sleep is over: the loop calls acquire again
Wake(p) ==
    /\ rl_callers[p].pc = "asleep"
    /\ rl_callers[p].sleep = 0
    /\ rl_callers' = [rl_callers EXCEPT ![p].pc = "acquire"]
    /\ UNCHANGED <<pipelineVars, clientVars, rl_rate, rl_capacity, rl_tokens, rl_since,
                   rl_lock, rl_allowance, rl_test>>

\* the caller has its result and is free to call again
Return(p) ==
    /\ rl_test.phase = "none"
    /\ rl_callers[p].pc = "returned"
    /\ rl_callers' = [rl_callers EXCEPT ![p] = IdleCaller]
    /\ UNCHANGED <<pipelineVars, clientVars, rl_rate, rl_capacity, rl_tokens, rl_since,
                   rl_lock, rl_allowance, rl_test>>

\* the allowance is counted up to twice the bucket: what is above the
\* capacity can never be granted
AllowanceCap(capacity) == 2 * Units(capacity)

\* test_rate_limiter_refill sees the clock advance; the time slept is
\* counted up to the time that brings two tokens
TestTick(t) ==
    IF t.phase \in {"drain"} THEN [t EXCEPT !.early = TRUE]
    ELSE IF t.phase = "sleep"
    THEN [t EXCEPT !.slept = Min(t.slept + 1, 2 * SleepTicks(rl_rate))]
    ELSE IF t.phase = "after" THEN [t EXCEPT !.late = TRUE]
    ELSE t

\* time.time() advances by one tick
Tick ==
    /\ rl_since' = Min(rl_since + 1, FillTicks(rl_capacity, rl_rate))
    /\ rl_callers' = [p \in CallerIds |->
                        [rl_callers[p] EXCEPT !.sleep = IF @ > 0 THEN @ - 1 ELSE 0]]
    /\ rl_allowance' = Min(rl_allowance + rl_rate, AllowanceCap(rl_capacity))
    /\ rl_test' = TestTick(rl_test)
    /\ UNCHANGED <<pipelineVars, clientVars, rl_rate, rl_capacity, rl_tokens, rl_lock>>

InitLimiter ==
    /\ \E rate \in Rates, capacity \in 1..MaxCapacity : RlInit(rate, capacity)
    /\ rl_test = NoTest
    /\ BridgeIdle /\ BarIdle /\ GttIdle /\ BoIdle /\ ClientIdle

LimiterNext ==
    \/ \E p \in CallerIds : Call(p)
    \/ \E p \in CallerIds : Lock(p)
    \/ \E p \in CallerIds : Check(p)
    \/ \E p \in CallerIds : Deduct(p)
    \/ \E p \in CallerIds : Wake(p)
    \/ \E p \in CallerIds : Return(p)
    \/ Tick

SpecLimiter == InitLimiter /\ [][LimiterNext]_vars

\* the scheduler is fair to every caller, the lock is handed to every
\* caller that keeps asking for it, and time advances
LimiterFairness ==
    /\ WF_vars(Tick)
    /\ \A p \in CallerIds :
        /\ SF_vars(Lock(p))
        /\ WF_vars(Check(p))
        /\ WF_vars(Deduct(p))
        /\ WF_vars(Wake(p))

SpecLimiterLive == SpecLimiter /\ LimiterFairness

(***************************************************************************)
(* test_rate_limiter_refill (src/tests/test_rate_limiter.py lines 29-42):  *)
(* caller 1 drains a TokenBucketRateLimiter(rate=10, capacity=10) with ten *)
(* acquire(1), calls acquire(1) once more, sleeps, and calls acquire(1)    *)
(* twice.  The clock may advance at any point; the test's record says      *)
(* when it did.                                                            *)
(***************************************************************************)
TestRate == 10
TestCapacity == 10

\* acquire(1) calls before the sleep, and in the whole test
TestDrainCalls == TestCapacity + 1
TestCalls == TestCapacity + 3

\* the test calls limiter.acquire(1)
TestAcquire ==
    /\ rl_test.phase \in {"drain", "after"}
    /\ rl_callers[1].pc = "idle"
    /\ rl_callers' = [rl_callers EXCEPT
                        ![1] = [IdleCaller EXCEPT !.pc = "acquire",
                                                  !.kind = "acquire", !.n = 1]]
    /\ UNCHANGED <<pipelineVars, clientVars, rl_rate, rl_capacity, rl_tokens, rl_since,
                   rl_lock, rl_allowance, rl_test>>

\* acquire(1) has returned to the test
TestResult ==
    LET results == Append(rl_test.results, rl_callers[1].ret) IN
    /\ rl_test.phase \in {"drain", "after"}
    /\ rl_callers[1].pc = "returned"
    /\ rl_callers' = [rl_callers EXCEPT ![1] = IdleCaller]
    /\ rl_test' = [rl_test EXCEPT
                     !.results = results,
                     !.phase = IF Len(results) = TestDrainCalls THEN "sleep"
                               ELSE IF Len(results) = TestCalls THEN "done"
                               ELSE @]
    /\ UNCHANGED <<pipelineVars, clientVars, rl_rate, rl_capacity, rl_tokens, rl_since,
                   rl_lock, rl_allowance>>

\* time.sleep returns
TestSleepOver ==
    /\ rl_test.phase = "sleep"
    /\ rl_test' = [rl_test EXCEPT !.phase = "after"]
    /\ UNCHANGED <<pipelineVars, clientVars, rl_rate, rl_capacity, rl_tokens, rl_since,
                   rl_lock, rl_callers, rl_allowance>>

InitLimiterTest ==
    /\ RlInit(TestRate, TestCapacity)
    /\ rl_test = [NoTest EXCEPT !.phase = "drain"]
    /\ BridgeIdle /\ BarIdle /\ GttIdle /\ BoIdle /\ ClientIdle

LimiterTestNext ==
    \/ TestAcquire
    \/ TestResult
    \/ TestSleepOver
    \/ \E p \in CallerIds : Lock(p)
    \/ \E p \in CallerIds : Check(p)
    \/ \E p \in CallerIds : Deduct(p)
    \/ Tick

SpecLimiterTest == InitLimiterTest /\ [][LimiterTestNext]_vars


(***************************************************************************)
(* AngelDataClient.get_historical_data                                     *)
(* (src/src/adapters/angel/data_client.py lines 120-219).                  *)
(*                                                                         *)
(* Several tasks fetch through one client.  Time is counted in ticks of    *)
(* one second and kept as the time left: of the shared cooldown and of     *)
(* each task's sleep.  The tasks run on one event loop: a task runs until  *)
(* it awaits.  The rate limiter is the one modelled above; here            *)
(* acquire_async is the point where a task waits until it is granted its   *)
(* token.                                                                  *)
(***************************************************************************)
MAX_RETRIES == 3

RETRYABLE_ERROR_CODES == {"AB1004", "AB1010", "AB1000"}

\* what one getCandleData call can come to: a payload that validates, an ok
\* response without data, an ok response whose payload does not validate,
\* an error response with a code, or an exception
Outcomes == {"data", "empty", "invalid", "AB1004", "AB1010", "AB1000",
             "AB2001", "exception"}

Pow2(k) == IF k <= 0 THEN 1 ELSE IF k = 1 THEN 2 ELSE 4

\* _retry_delay in whole seconds: the jitter (at most 1.0 s, 0.5 s for the
\* other codes) ends inside the next second
RetryDelay(error_code, attempt) ==
    IF error_code = "AB1004"
    THEN Min(30, 2 * Pow2(attempt - 1) + 1)
    ELSE Min(15, Pow2(attempt - 1) + 1)

\* mutant: every error code is retried
Retryable_AnyCode(error_code) == TRUE

\* line 191: error_code in RETRYABLE_ERROR_CODES
Retryable(error_code) == error_code \in RETRYABLE_ERROR_CODES

\* mutant: the cooldown deadline is replaced, not extended
Extended_Replaced(left, delay) == delay

\* line 194: max(self._cooldown_until, time.time() + delay)
Extended(left, delay) == IF left >= delay THEN left ELSE delay

\* a task is suspended when it has not started or has ended, sleeps, or
\* waits in acquire_async; the event loop runs a task only while every
\* other task is suspended
Suspended(c) == c.pc \in {"idle", "cooling", "acquire", "backoff", "done"}

LoopFree(f) == \A g \in FetchIds \ {f} : Suspended(fetches[g])

\* lines 142-155: ensure_authenticated returns, or raises RuntimeError when
\* the session is invalid and the login fails
BeginFetch(f) ==
    /\ LoopFree(f)
    /\ fetches[f].pc = "idle"
    /\ \E authenticated \in BOOLEAN :
        fetches' = [fetches EXCEPT
                      ![f] = IF authenticated
                             THEN [IdleFetch EXCEPT !.pc = "cooldown", !.attempt = 1]
                             ELSE [IdleFetch EXCEPT !.pc = "done", !.result = "raised"]]
    /\ UNCHANGED <<pipelineVars, rlVars, cooldown_left, chunked, summary>>

\* _wait_for_cooldown lines 60-62: read the time left, and sleep it if any
WaitForCooldown(f) ==
    /\ LoopFree(f)
    /\ fetches[f].pc = "cooldown"
    /\ fetches' = [fetches EXCEPT
                     ![f] = IF cooldown_left > 0
                            THEN [@ EXCEPT !.pc = "cooling", !.sleep = cooldown_left]
                            ELSE [@ EXCEPT !.pc = "acquire"]]
    /\ UNCHANGED <<pipelineVars, rlVars, cooldown_left, chunked, summary>>

\* asyncio.sleep(remaining) is over
CooldownOver(f) ==
    /\ LoopFree(f)
    /\ fetches[f].pc = "cooling"
    /\ fetches[f].sleep = 0
    /\ fetches' = [fetches EXCEPT ![f].pc = "acquire"]
    /\ UNCHANGED <<pipelineVars, rlVars, cooldown_left, chunked, summary>>

\* line 157: acquire_async returns, the task has been granted one token
Acquire(f) ==
    /\ LoopFree(f)
    /\ fetches[f].pc = "acquire"
    /\ fetches' = [fetches EXCEPT ![f].pc = "call", ![f].granted = @ + 1]
    /\ UNCHANGED <<pipelineVars, rlVars, cooldown_left, chunked, summary>>

\* what lines 159-216 make of the outcome of the call in this attempt:
\* the task's record and the cooldown left
AfterCall(c, left, outcome) ==
    LET called == [c EXCEPT !.calls = @ + 1, !.last = outcome] IN
    IF outcome = "data"
    THEN [fetch |-> [called EXCEPT !.pc = "done", !.result = "df"], left |-> left]
    ELSE IF outcome \in {"empty", "invalid"}
    THEN [fetch |-> [called EXCEPT !.pc = "done", !.result = "None"], left |-> left]
    ELSE IF outcome = "exception"
    THEN IF c.attempt < MAX_RETRIES
         THEN [fetch |-> [called EXCEPT !.pc = "backoff",
                                        !.sleep = RetryDelay("", c.attempt)],
               left |-> left]
         ELSE [fetch |-> [called EXCEPT !.pc = "done", !.result = "None"],
               left |-> left]
    ELSE IF Retryable(outcome) /\ c.attempt < MAX_RETRIES
    THEN [fetch |-> [called EXCEPT !.pc = "backoff",
                                   !.sleep = RetryDelay(outcome, c.attempt)],
          left |-> IF outcome = "AB1004"
                   THEN Extended(left, RetryDelay(outcome, c.attempt))
                   ELSE left]
    ELSE [fetch |-> [called EXCEPT !.pc = "done", !.result = "None"], left |-> left]

\* lines 159-216: the upstream call of this attempt and its classification
UpstreamCall(f) ==
    /\ LoopFree(f)
    /\ fetches[f].pc = "call"
    /\ \E outcome \in Outcomes :
        LET r == AfterCall(fetches[f], cooldown_left, outcome) IN
        /\ fetches' = [fetches EXCEPT ![f] = r.fetch]
        /\ cooldown_left' = r.left
    /\ UNCHANGED <<pipelineVars, rlVars, chunked, summary>>

\* mutant: the next attempt calls upstream at once, without the cooldown wait
\* and without a token
BackoffOver_StraightToCall(f) ==
    /\ LoopFree(f)
    /\ fetches[f].pc = "backoff"
    /\ fetches[f].sleep = 0
    /\ fetches' = [fetches EXCEPT ![f].pc = "call", ![f].attempt = @ + 1]
    /\ UNCHANGED <<pipelineVars, rlVars, cooldown_left, chunked, summary>>

\* asyncio.sleep(delay) is over: the next attempt of the for loop
BackoffOver(f) ==
    /\ LoopFree(f)
    /\ fetches[f].pc = "backoff"
    /\ fetches[f].sleep = 0
    /\ fetches' = [fetches EXCEPT ![f].pc = "cooldown", ![f].attempt = @ + 1]
    /\ UNCHANGED <<pipelineVars, rlVars, cooldown_left, chunked, summary>>

\* the caller has the result and the task is free to fetch again
FetchReturn(f) ==
    /\ LoopFree(f)
    /\ fetches[f].pc = "done"
    /\ fetches' = [fetches EXCEPT ![f] = IdleFetch]
    /\ UNCHANGED <<pipelineVars, rlVars, cooldown_left, chunked, summary>>

\* one second passes
FetchTick ==
    /\ cooldown_left > 0 \/ \E f \in FetchIds : fetches[f].sleep > 0
    /\ cooldown_left' = IF cooldown_left > 0 THEN cooldown_left - 1 ELSE 0
    /\ fetches' = [f \in FetchIds |->
                     [fetches[f] EXCEPT !.sleep = IF @ > 0 THEN @ - 1 ELSE 0]]
    /\ UNCHANGED <<pipelineVars, rlVars, chunked, summary>>

InitFetch ==
    /\ cooldown_left = 0
    /\ fetches = [f \in FetchIds |-> IdleFetch]
    /\ chunked = NoChunked
    /\ summary = NoSummary
    /\ BridgeIdle /\ BarIdle /\ GttIdle /\ BoIdle /\ RlIdle

FetchNext ==
    \/ \E f \in FetchIds : BeginFetch(f)
    \/ \E f \in FetchIds : WaitForCooldown(f)
    \/ \E f \in FetchIds : CooldownOver(f)
    \/ \E f \in FetchIds : Acquire(f)
    \/ \E f \in FetchIds : UpstreamCall(f)
    \/ \E f \in FetchIds : BackoffOver(f)
    \/ \E f \in FetchIds : FetchReturn(f)
    \/ FetchTick

SpecFetch == InitFetch /\ [][FetchNext]_vars


(***************************************************************************)
(* AngelDataClient.get_historical_data_chunked                             *)
(* (src/src/adapters/angel/data_client.py lines 221-297).                  *)
(*                                                                         *)
(* Dates and candle timestamps are whole days, from_date is day 0.  A      *)
(* candle is [timestamp, chunk]: chunk is the number of the sub-request    *)
(* that returned it and stands for the candle's prices.  A sub-request is  *)
(* one get_historical_data call, modelled above; here it comes to a series,*)
(* to None, or to the exception of ensure_authenticated.                   *)
(***************************************************************************)
\* the interval arguments: one of each chunk default, and an unknown one
HistIntervals == {"ONE_MINUTE", "FIFTEEN_MINUTE", "ONE_HOUR", "ONE_DAY", "WEEKLY"}

\* to_date arguments, in days after from_date
ToDates == {2, 10}

\* chunk_days arguments
ChunkDayArgs == {0, 3}

\* _recommended_chunk_days
RecommendedChunkDays(interval) ==
    IF interval \in {"ONE_MINUTE", "THREE_MINUTE", "FIVE_MINUTE"} THEN 1
    ELSE IF interval \in {"TEN_MINUTE", "FIFTEEN_MINUTE", "THIRTY_MINUTE"} THEN 3
    ELSE IF interval = "ONE_HOUR" THEN 15
    ELSE 30

\* mutant: the caller's chunk_days is used as given
EffectiveChunkDays_AsGiven(chunk_days, interval) ==
    IF chunk_days <= 0 THEN 30 ELSE chunk_days

\* lines 245-247
EffectiveChunkDays(chunk_days, interval) ==
    Min(IF chunk_days <= 0 THEN 30 ELSE chunk_days, RecommendedChunkDays(interval))

\* what one sub-request for [from, to) can come to
ChunkOutcomes == {"df", "df_boundary", "None", "raised"}

\* the series of a sub-request: the first and the last day of the range in
\* order, or the boundary sample `to` followed by the first day
ChunkDf(outcome, chunk, from, to) ==
    IF outcome = "df"
    THEN IF to - from >= 2
         THEN <<[timestamp |-> from, chunk |-> chunk],
                [timestamp |-> to - 1, chunk |-> chunk]>>
         ELSE <<[timestamp |-> from, chunk |-> chunk]>>
    ELSE <<[timestamp |-> to, chunk |-> chunk],
           [timestamp |-> from, chunk |-> chunk]>>

\* pd.concat(all_dfs, ignore_index=True)
RECURSIVE Concat(_)
Concat(dfs) == IF dfs = <<>> THEN <<>> ELSE Head(dfs) \o Concat(Tail(dfs))

\* the rows whose timestamp repeats the timestamp of an earlier row
Duplicated(df) ==
    {i \in 1..Len(df) : \E j \in 1..(i - 1) : df[j].timestamp = df[i].timestamp}

\* the rows of df at the positions in keep, in their order
Rows(df, keep) ==
    LET RECURSIVE Go(_, _)
        Go(i, acc) == IF i > Len(df) THEN acc
                      ELSE Go(i + 1, IF i \in keep THEN Append(acc, df[i]) ELSE acc)
    IN Go(1, <<>>)

\* mutant: of the rows with one timestamp the last one is kept
DropDuplicates_KeepLast(df) ==
    LET later == {i \in 1..Len(df) :
                    \E j \in (i + 1)..Len(df) : df[j].timestamp = df[i].timestamp}
    IN Rows(df, (1..Len(df)) \ later)

\* drop_duplicates(subset=["timestamp"], keep="first")
DropDuplicates(df) == Rows(df, (1..Len(df)) \ Duplicated(df))

\* one row put into a series that is sorted by timestamp, after the rows
\* that are not later than it
RECURSIVE Inserted(_, _)
Inserted(sorted, row) ==
    IF sorted = <<>> THEN <<row>>
    ELSE IF Head(sorted).timestamp <= row.timestamp
    THEN <<Head(sorted)>> \o Inserted(Tail(sorted), row)
    ELSE <<row>> \o sorted

\* sort_values("timestamp")
RECURSIVE SortValues(_)
SortValues(df) ==
    IF df = <<>> THEN <<>>
    ELSE Inserted(SortValues(SubSeq(df, 1, Len(df) - 1)), df[Len(df)])

\* INTERVAL_SECONDS.get(interval): 0 stands for None
IntervalSeconds(interval) ==
    IF interval = "ONE_MINUTE" THEN 60
    ELSE IF interval = "THREE_MINUTE" THEN 180
    ELSE IF interval = "FIVE_MINUTE" THEN 300
    ELSE IF interval = "TEN_MINUTE" THEN 600
    ELSE IF interval = "FIFTEEN_MINUTE" THEN 900
    ELSE IF interval = "THIRTY_MINUTE" THEN 1800
    ELSE IF interval = "ONE_HOUR" THEN 3600
    ELSE IF interval = "ONE_DAY" THEN 86400
    ELSE 0

DaySeconds == 86400

\* pd.to_datetime(..., errors="coerce") of a timestamp that does not parse
NaT == -1

\* dropna()
DropNa(df) ==
    Rows(df, {i \in 1..Len(df) : df[i].timestamp # NaT})

\* (interval or "").upper() on the interval names used here
Upper(interval) ==
    IF interval = "one_minute" THEN "ONE_MINUTE" ELSE interval

\* mutant: a delta of exactly 1.5 x the interval counts as a gap
Continuity_AtLeast(df, interval, unit) ==
    LET expected == IntervalSeconds(Upper(interval))
        ts == SortValues(DropNa(df))
        duplicate_count == Cardinality(Duplicated(ts))
        gaps == {i \in 2..Len(ts) :
                   2 * (ts[i].timestamp - ts[i - 1].timestamp) * unit
                       >= 3 * expected}
    IN
    IF df = <<>> THEN [gap_count |-> 0, duplicate_count |-> 0]
    ELSE IF expected = 0 \/ Len(ts) < 2
    THEN [gap_count |-> 0, duplicate_count |-> duplicate_count]
    ELSE [gap_count |-> Cardinality(gaps), duplicate_count |-> duplicate_count]

\* _continuity_summary, the timestamps of df counting units of `unit` seconds
Continuity(df, interval, unit) ==
    LET expected == IntervalSeconds(Upper(interval))
        ts == SortValues(DropNa(df))
        duplicate_count == Cardinality(Duplicated(ts))
        gaps == {i \in 2..Len(ts) :
                   2 * (ts[i].timestamp - ts[i - 1].timestamp) * unit
                       > 3 * expected}
    IN
    IF df = <<>> THEN [gap_count |-> 0, duplicate_count |-> 0]
    ELSE IF expected = 0 \/ Len(ts) < 2
    THEN [gap_count |-> 0, duplicate_count |-> duplicate_count]
    ELSE [gap_count |-> Cardinality(gaps), duplicate_count |-> duplicate_count]

\* _continuity_summary of a series with timestamps in days
ContinuitySummary(df, interval) == Continuity(df, interval, DaySeconds)

\* lines 245-250: a call with from_date = day 0
CallChunked ==
    /\ chunked.pc = "idle"
    /\ \E interval \in HistIntervals, to_date \in ToDates, chunk_days \in ChunkDayArgs :
        chunked' = [NoChunked EXCEPT
                      !.pc = "loop", !.interval = interval, !.to_date = to_date,
                      !.given = chunk_days,
                      !.chunk_days = EffectiveChunkDays(chunk_days, interval)]
    /\ UNCHANGED <<pipelineVars, rlVars, cooldown_left, fetches, summary>>

\* lines 252-266: the next sub-range is requested
RequestChunk ==
    LET current_to == Min(chunked.current_from + chunked.chunk_days, chunked.to_date) IN
    /\ chunked.pc = "loop"
    /\ chunked.current_from < chunked.to_date
    /\ chunked' = [chunked EXCEPT
                     !.pc = "fetching", !.current_to = current_to,
                     !.requests = Append(@, [from |-> chunked.current_from,
                                             to |-> current_to])]
    /\ UNCHANGED <<pipelineVars, rlVars, cooldown_left, fetches, summary>>

\* lines 260-278: get_historical_data ends; a series is collected, None is
\* logged, an exception leaves get_historical_data_chunked; then the pacing
\* sleep and the next round of the loop
ChunkFetched ==
    /\ chunked.pc = "fetching"
    /\ \E outcome \in ChunkOutcomes :
        chunked' =
            IF outcome = "raised"
            THEN [chunked EXCEPT !.pc = "done", !.returned.value = "raised"]
            ELSE [chunked EXCEPT
                    !.pc = "loop",
                    !.all_dfs = IF outcome = "None" THEN @
                                ELSE Append(@, ChunkDf(outcome, Len(chunked.requests),
                                                       chunked.current_from,
                                                       chunked.current_to)),
                    !.current_from = chunked.current_to]
    /\ UNCHANGED <<pipelineVars, rlVars, cooldown_left, fetches, summary>>

\* lines 280-297: the loop is over; None, or the merged series
MergeChunks ==
    LET combined_df == SortValues(DropDuplicates(Concat(chunked.all_dfs))) IN
    /\ chunked.pc = "loop"
    /\ chunked.current_from >= chunked.to_date
    /\ chunked' =
         IF chunked.all_dfs = <<>>
         THEN [chunked EXCEPT !.pc = "done", !.returned.value = "None"]
         ELSE [chunked EXCEPT
                 !.pc = "done",
                 !.continuity = <<ContinuitySummary(combined_df, chunked.interval)>>,
                 !.returned = [value |-> "df", df |-> combined_df]]
    /\ UNCHANGED <<pipelineVars, rlVars, cooldown_left, fetches, summary>>

\* the caller has what the call returned
ReturnChunked ==
    /\ chunked.pc = "done"
    /\ chunked' = NoChunked
    /\ UNCHANGED <<pipelineVars, rlVars, cooldown_left, fetches, summary>>

InitChunked ==
    /\ cooldown_left = 0
    /\ fetches = [f \in FetchIds |-> IdleFetch]
    /\ chunked = NoChunked
    /\ summary = NoSummary
    /\ BridgeIdle /\ BarIdle /\ GttIdle /\ BoIdle /\ RlIdle

ChunkedNext ==
    \/ CallChunked
    \/ RequestChunk
    \/ ChunkFetched
    \/ MergeChunks
    \/ ReturnChunked

SpecChunked == InitChunked /\ [][ChunkedNext]_vars

(***************************************************************************)
(* The loop of get_historical_data_chunked over short ranges and with      *)
(* chunk_days arguments that are zero or negative, under fairness.         *)
(***************************************************************************)
ShortToDates == {1, 4}

NonPositiveChunkDays == {-1, 0}

\* lines 245-250: a call with from_date = day 0 over a short range
CallChunkedShort ==
    /\ chunked.pc = "idle"
    /\ \E interval \in HistIntervals, to_date \in ShortToDates,
          chunk_days \in ChunkDayArgs \cup NonPositiveChunkDays :
        chunked' = [NoChunked EXCEPT
                      !.pc = "loop", !.interval = interval, !.to_date = to_date,
                      !.given = chunk_days,
                      !.chunk_days = EffectiveChunkDays(chunk_days, interval)]
    /\ UNCHANGED <<pipelineVars, rlVars, cooldown_left, fetches, summary>>

ChunkedShortNext ==
    \/ CallChunkedShort
    \/ RequestChunk
    \/ ChunkFetched
    \/ MergeChunks
    \/ ReturnChunked

\* the while condition of line 252 is false
LoopOver == chunked.pc = "loop" /\ chunked.current_from >= chunked.to_date

\* weak fairness of MergeChunks, written with its enabling condition
MergeFairness ==
    []<>~LoopOver \/ []<><<LoopOver /\ chunked'.pc = "done">>_vars

\* the event loop runs the coroutine whenever it can go on, and every
\* sub-request comes to an end (get_historical_data makes at most
\* MAX_RETRIES attempts)
ChunkedFairness ==
    /\ WF_vars(RequestChunk)
    /\ WF_vars(ChunkFetched)
    /\ MergeFairness

SpecChunkedLive == InitChunked /\ [][ChunkedShortNext]_vars /\ ChunkedFairness

(***************************************************************************)
(* AngelDataClient._continuity_summary as a function of its arguments      *)
(* (src/src/adapters/angel/data_client.py lines 99-118).  A timestamp is a *)
(* number of half minutes, or NaT.                                         *)
(***************************************************************************)
StampSeconds == 30

\* the timestamps of the rows: deltas of 60, 90, 120 seconds and more
Stamps == {NaT, 0, 2, 5, 9}

\* the interval arguments: a name, the same name in lower case, one without
\* an entry in INTERVAL_SECONDS, and None
SummaryIntervals == {"ONE_MINUTE", "one_minute", "WEEKLY", ""}

\* the frames of at most MaxRows rows
Frames ==
    UNION {[1..n -> {[timestamp |-> t] : t \in Stamps}] : n \in 0..MaxRows}

\* _continuity_summary(df, interval) is called
CallSummary ==
    /\ summary.pc = "idle"
    /\ \E df \in Frames, interval \in SummaryIntervals :
        summary' = [NoSummary EXCEPT !.pc = "called", !.df = df,
                                     !.interval = interval]
    /\ UNCHANGED <<pipelineVars, rlVars, cooldown_left, fetches, chunked>>

\* lines 106-118
Summarise ==
    /\ summary.pc = "called"
    /\ summary' = [summary EXCEPT
                     !.pc = "returned",
                     !.result = Continuity(summary.df, summary.interval, StampSeconds)]
    /\ UNCHANGED <<pipelineVars, rlVars, cooldown_left, fetches, chunked>>

InitContinuity ==
    /\ cooldown_left = 0
    /\ fetches = [f \in FetchIds |-> IdleFetch]
    /\ chunked = NoChunked
    /\ summary = NoSummary
    /\ BridgeIdle /\ BarIdle /\ GttIdle /\ BoIdle /\ RlIdle

ContinuityNext ==
    \/ CallSummary
    \/ Summarise

SpecContinuity == InitContinuity /\ [][ContinuityNext]_vars


(***************************************************************************)
(* Properties of DataBridge.                                               *)
(***************************************************************************)
SeqOf(tick) == tick.seq
Seqs(ticks) == SeqMap(ticks, SeqOf)

\* the ticks of `dequeued` whose fanout began after subscriber s registered
Since(s, dequeued) == SubSeq(dequeued, hist.subFrom[s] + 1, Len(dequeued))

\* the tick created for s that its coroutine has not begun to handle
PendingFor(s) ==
    LET cs == {c \in calls : c.sub = s /\ c.state = "scheduled"} IN
    IF cs = {} THEN <<>> ELSE <<(CHOOSE c \in cs : TRUE).tick.seq>>

Normalizable(tick) == tick.volume \in {"0", "7"}
MeetsContract(tick) == tick.token = "T1" /\ tick.has_price

\* C1: every subscriber is invoked exactly once, in submission order, for each
\* tick accepted into the queue: the accepted ticks are the dequeued ones
\* followed by the queued ones, and what a subscriber has been given (or is
\* about to be given) is exactly the dequeued ticks since it registered.
C1_EveryAcceptedTickDelivered ==
    /\ hist.accepted = hist.dequeued \o queue
    /\ \A i \in 1..Len(subscribers) :
        LET s == subscribers[i] IN
        hist.received[s] \o PendingFor(s) = Seqs(Since(s, hist.dequeued))

\* C2: with N valid ticks offered and nothing dequeued, the queue holds
\* min(N, C) ticks, never more than C, and the dropped counters equal
\* max(0, N - C) exactly.
C2_BurstDropsExcess ==
    /\ Len(queue) <= QueueCap
    /\ (hist.dequeued = <<>> /\ \A t \in Range(hist.offered) : MeetsContract(t)) =>
        LET N == Len(hist.offered)
            dropped == IF N > QueueCap THEN N - QueueCap ELSE 0 IN
        /\ Len(queue) = N - dropped
        /\ stats.ticks_dropped = dropped
        /\ stats.ticks_received = N - dropped
        /\ prom.dropped = dropped

C2_Witness ==
    /\ hist.dequeued = <<>>
    /\ \A t \in Range(hist.offered) : MeetsContract(t)
    /\ Len(hist.offered) > QueueCap
    /\ stats.ticks_dropped = Len(hist.offered) - QueueCap

C3_NoInvalidInside ==
    /\ \A t \in Range(queue) \cup Range(hist.accepted) : MeetsContract(t)
    /\ \A s \in SubIds : \A n \in Range(hist.received[s]) :
        \A t \in Range(hist.offered) : t.seq = n => MeetsContract(t)

C3_InvalidStep ==
    (callbacks /= <<>> /\ callbacks' = Tail(callbacks)
        /\ ~MeetsContract(Head(callbacks))) =>
    /\ queue' = queue
    /\ stats'.ticks_received = stats.ticks_received
    /\ stats'.ticks_dropped = stats.ticks_dropped + 1
    /\ prom'.received = prom.received
    /\ prom'.dropped = prom.dropped
    /\ prom'.invalid = prom.invalid + 1

C4_SubmitNeverRaises == ~hist.raised

C6_PipelineKeepsRunning ==
    /\ consumer \in {"none", "created", "get", "broadcast", "done"}
    /\ consumer = "done" => ~running
    /\ \A i \in 1..Len(subscribers) :
        LET s == subscribers[i] IN
        hist.received[s] \o PendingFor(s) =
            Seqs(SelectIdx(Since(s, hist.dequeued), Normalizable))

C6_Witness ==
    /\ Len(hist.dequeued) = 3
    /\ ~Normalizable(hist.dequeued[1])
    /\ hist.received[1] = <<2, 3>>
    /\ hist.received[2] = <<2, 3>>
    /\ \E c \in calls : c.state = "raised" /\ c.tick.seq = 3

ReceivedInFlight ==
    hist.stopAt /= 0 =>
        \A i \in 1..Len(subscribers) :
            LET s == subscribers[i] IN
            hist.subFrom[s] < hist.stopAt =>
                hist.dequeued[hist.stopAt].seq \in Range(hist.received[s])

C7_StopReturned ==
    stopper = "returned" =>
        /\ consumer \in {"none", "done"}
        /\ task = "None"
        /\ calls = {}
        /\ ReceivedInFlight

C7_StopStep ==
    /\ (stopper = "idle" /\ stopper' = "awaiting") =>
        /\ running' = FALSE
        /\ UNCHANGED <<queue, subscribers, task, stats, callbacks, consumer, calls>>
    /\ \A c \in calls : ~Finished(c) =>
        \E d \in calls' : d.sub = c.sub /\ d.tick = c.tick

C35_StopDeliversQueued ==
    stopper = "returned" =>
        \A i \in 1..Len(queue) : queue[i].seq \notin hist.queuedAtStop


(***************************************************************************)
(* Properties of BarAggregator.                                            *)
(***************************************************************************)
EmittedFor(key) ==
    LET OfKey(b) == b.symbol = key[1] /\ b.interval_seconds = key[2]
    IN SelectIdx(emitted, OfKey)

TickCountOf(b) == b.tick_count

OpenCount(key) ==
    LET k == KeyIndex(bars, key[1], key[2]) IN
    IF k = 0 THEN 0 ELSE bars[k].tick_count

\* C8: every emitted bar has low <= open <= high, low <= close <= high and
\* tick_count >= 1.
C8_EmittedBarsWellFormed ==
    \A i \in 1..Len(emitted) :
        LET b == emitted[i] IN
        /\ b.low <= b.open /\ b.open <= b.high
        /\ b.low <= b.close /\ b.close <= b.high
        /\ b.tick_count >= 1

C8_Witness ==
    /\ barHist.flushes = 0
    /\ \E i \in 1..Len(emitted) :
        emitted[i].tick_count >= 2 /\ emitted[i].low < emitted[i].high

AsSummary(b) ==
    [start |-> b.timestamp.date * DayLen + b.timestamp.time,
     open |-> b.open, high |-> b.high, low |-> b.low, close |-> b.close,
     volume |-> b.volume, tick_count |-> b.tick_count]

\* C9: for the priced ticks of one symbol in timestamp order, the bars emitted
\* for an interval are, at every moment, exactly the buckets that a later
\* bucket's first tick has closed, each with open = first price, high = max,
\* low = min, close = last price, volume = sum and tick_count = number of
\* the bucket's ticks.
C9_BarPerClosedBucket ==
    \A key \in Keys : SeqMap(EmittedFor(key), AsSummary) = barHist.closed[key]

\* C10: flush leaves no open bar, and no tick that entered a bar is lost or
\* emitted twice: per key, the ticks of the emitted bars and of the open bar
\* are exactly the ticks that entered a bar.
C10_FlushEmitsAll ==
    /\ barHist.lastOp = "flush" => bars = <<>>
    /\ aggStats.bars_emitted = Len(emitted)
    /\ \A key \in Keys :
        SeqSum(SeqMap(EmittedFor(key), TickCountOf)) + OpenCount(key)
            = barHist.counted[key]

C10_Witness ==
    /\ barHist.lastOp = "flush"
    /\ \E i, j \in 1..Len(emitted) :
        /\ i < j
        /\ emitted[i].symbol = emitted[j].symbol
        /\ emitted[i].interval_seconds = emitted[j].interval_seconds
    /\ \E i \in 1..Len(emitted) : emitted[i].tick_count >= 2

BucketStart(b) == b.timestamp.date * DayLen + b.timestamp.time
StrictlyIncreasing(s) == \A i, j \in 1..Len(s) : i < j => s[i] < s[j]

\* the bars of `key` emitted after the last flush
SinceFlushFor(key) ==
    LET OfKey(b) == b.symbol = key[1] /\ b.interval_seconds = key[2]
    IN SelectIdx(SubSeq(emitted, barHist.flushedAt + 1, Len(emitted)), OfKey)

\* C11 as stated: for each (symbol, interval), over any sequence of on_tick
\* calls (timestamps in any order) and flush calls, the bucket starts of the
\* emitted bars are strictly increasing.
C11_StartsStrictlyIncreasing ==
    \A key \in Keys : StrictlyIncreasing(SeqMap(EmittedFor(key), BucketStart))

\* C11: for each (symbol, interval), the bucket starts of the bars emitted
\* since the last flush are strictly increasing and all earlier than the
\* open bar's bucket, whatever the order of the ticks' timestamps; hence the
\* bars of on_tick calls and of the flush that ends them come out in
\* increasing bucket order.  After a flush the order starts anew.
C11_IncreasingBetweenFlushes ==
    \A key \in Keys :
        LET starts == SeqMap(SinceFlushFor(key), BucketStart)
            k == KeyIndex(bars, key[1], key[2])
        IN /\ StrictlyIncreasing(starts)
           /\ k /= 0 => \A i \in 1..Len(starts) : starts[i] < bars[k].bar_start

C11_Witness ==
    \E key \in Keys :
        /\ Len(SinceFlushFor(key)) >= 1
        /\ KeyIndex(bars, key[1], key[2]) /= 0
        /\ OpenCount(key) >= 2
        /\ barHist.flushes = 0

(***************************************************************************)
(* Properties of the GTT engine.                                           *)
(***************************************************************************)
GttIds == 1..Len(gtt_orders)

\* the number of events in ev that name order id
EventCount(ev, id) == Cardinality({k \in 1..Len(ev) : ev[k].gtt_id = id})

IsCheck(h, symbol) == h.op = "check_triggers" /\ h.symbol = symbol

\* an ACTIVE order of the same symbol stands before order id in gtt_orders
ActiveAhead(id) ==
    \E j \in 1..(id - 1) :
        gtt_orders[j].symbol = gtt_orders[id].symbol /\ gtt_orders[j].status = "ACTIVE"

C12_AtMostOneEvent == \A id \in GttIds : EventCount(gttEvents, id) <= 1

\* a check_triggers call seen by an ACTIVE GTE order that is the first
\* ACTIVE order of its symbol: below the trigger it does not fire, at or
\* above the trigger it fires in that very call
C12_CrossingStep ==
    \A id \in GttIds :
        LET gtt == gtt_orders[id] IN
        (/\ IsCheck(gttHist', gtt.symbol)
         /\ gtt.status = "ACTIVE" /\ gtt.condition = "GTE" /\ ~ActiveAhead(id))
        => IF gttHist'.price < gtt.trigger_price
           THEN /\ gtt_orders'[id].status /= "TRIGGERED"
                /\ EventCount(gttEvents', id) = 0
           ELSE /\ gtt_orders'[id].status = "TRIGGERED"
                /\ order_callback = "set" => EventCount(gttEvents', id) = 1

\* C12: no order ever has more than one order-submission event, whatever
\* prices the check_triggers calls carry; and a GTE order that sees a price
\* below its trigger and then a price at or above it (495 then 505 for a
\* trigger of 500) fires on the second call, once.
C12_FiresAtMostOnce == []C12_AtMostOneEvent /\ [][C12_CrossingStep]_vars

\* an order that fired and was then checked again at a price below its
\* trigger
C12_Witness ==
    \E id \in GttIds :
        /\ gtt_orders[id].condition = "GTE"
        /\ gtt_orders[id].status = "TRIGGERED"
        /\ EventCount(gttEvents, id) = 1
        /\ IsCheck(gttHist, gtt_orders[id].symbol)
        /\ gttHist.price < gtt_orders[id].trigger_price

C13_PairEventsAtMostOne ==
    \A p \in oco_pairs :
        EventCount(gttEvents, p[1]) + EventCount(gttEvents, p[2]) <= 1

\* a check_triggers call that returns and in which a leg became TRIGGERED
\* leaves the other leg CANCELLED, with no event of its own
C13_PartnerCancelledStep ==
    \A p \in oco_pairs :
        (/\ gttHist'.op = "check_triggers" /\ ~gttHist'.raised
         /\ gtt_orders[p[1]].status = "ACTIVE"
         /\ gtt_orders'[p[1]].status = "TRIGGERED")
        => /\ gtt_orders'[p[2]].status = "CANCELLED"
           /\ EventCount(gttEvents', p[2]) = 0

\* C13: an OCO pair made by place_oco never has two order-submission events
\* under any check_triggers and cancel_gtt calls, and when a leg becomes
\* TRIGGERED the other leg is CANCELLED, without an event, when that
\* check_triggers call returns; whichever leg fires first, and also when
\* one price meets both legs' conditions.
C13_OcoFiresOneLeg == []C13_PairEventsAtMostOne /\ [][C13_PartnerCancelledStep]_vars

\* the condition of an order as the claim words it
ConditionHolds(gtt, price) ==
    \/ gtt.condition = "GTE" /\ price >= gtt.trigger_price
    \/ gtt.condition = "LTE" /\ price <= gtt.trigger_price

NewEvents(id) == EventCount(gttEvents', id) - EventCount(gttEvents, id)

\* the last event carries order id's side, quantity and limit price
CarriesOrder(ev, id, gtt) ==
    \E k \in 1..Len(ev) :
        /\ ev[k].gtt_id = id /\ ev[k].symbol = gtt.symbol /\ ev[k].side = gtt.side
        /\ ev[k].quantity = gtt.quantity /\ ev[k].price = gtt.limit_price

C14_CheckStep ==
    gttHist'.op = "check_triggers" =>
    \A id \in GttIds :
        LET gtt == gtt_orders[id]
            eligible == /\ gtt.status = "ACTIVE"
                        /\ gtt.symbol = gttHist'.symbol
                        /\ ConditionHolds(gtt, gttHist'.price)
            fired == gtt.status = "ACTIVE" /\ gtt_orders'[id].status = "TRIGGERED"
        IN /\ fired <=> eligible
           /\ (fired /\ order_callback = "set")
                => NewEvents(id) = 1 /\ CarriesOrder(gttEvents', id, gtt)
           /\ ~fired => gtt_orders'[id] = gtt /\ NewEvents(id) = 0

FiredNow(id) ==
    gtt_orders[id].status = "ACTIVE" /\ gtt_orders'[id].status = "TRIGGERED"

\* the OCO partner of order id fired in this call and the call went on to
\* cancel id
PartnerFiredNow(id) ==
    LET partner_id == OcoPartner(oco_pairs, id) IN
    partner_id /= 0 /\ FiredNow(partner_id) /\ gttHist'.id /= partner_id

C14_InOrderStep ==
    gttHist'.op = "check_triggers" =>
    \A id \in GttIds :
        LET gtt == gtt_orders[id]
            partner_id == OcoPartner(oco_pairs, id)
            eligible == /\ gtt.status = "ACTIVE"
                        /\ gtt.symbol = gttHist'.symbol
                        /\ ConditionHolds(gtt, gttHist'.price)
            reached == ~gttHist'.raised \/ id <= gttHist'.id
            cancelledAhead == partner_id < id /\ PartnerFiredNow(id)
        IN /\ FiredNow(id) <=> (eligible /\ reached /\ ~cancelledAhead)
           /\ (FiredNow(id) /\ order_callback = "set")
                => NewEvents(id) = 1 /\ CarriesOrder(gttEvents', id, gtt)
           /\ ~FiredNow(id) => NewEvents(id) = 0
           /\ (~FiredNow(id) /\ ~(gtt.status = "ACTIVE" /\ PartnerFiredNow(id)))
                => gtt_orders'[id] = gtt
           /\ (~FiredNow(id) /\ gtt.status = "ACTIVE" /\ PartnerFiredNow(id))
                => gtt_orders'[id].status = "CANCELLED"

GttState == <<gtt_orders, oco_pairs, order_callback, triggered_history, gttEvents>>

C15_StatusStep ==
    /\ Len(gtt_orders') >= Len(gtt_orders)
    /\ \A id \in GttIds :
        \/ gtt_orders'[id].status = gtt_orders[id].status
        \/ /\ gtt_orders[id].status = "ACTIVE"
           /\ gtt_orders'[id].status \in {"TRIGGERED", "CANCELLED"}
    /\ \A id \in 1..Len(gtt_orders') :
        id \notin GttIds => gtt_orders'[id].status = "ACTIVE"

\* cancel_gtt on an id that is unknown or not ACTIVE returns False and
\* changes nothing; on an ACTIVE order it returns True
C15_CancelStep ==
    gttHist'.op = "cancel_gtt" =>
        LET order_id == gttHist'.id IN
        IF order_id \in GttIds /\ gtt_orders[order_id].status = "ACTIVE"
        THEN gttHist'.ret /\ gtt_orders'[order_id].status = "CANCELLED"
        ELSE ~gttHist'.ret /\ UNCHANGED GttState

C15_Statuses ==
    \A id \in GttIds : gtt_orders[id].status \in {"ACTIVE", "TRIGGERED", "CANCELLED"}

\* C15: the status of a GTT order only moves ACTIVE -> TRIGGERED or ACTIVE ->
\* CANCELLED; a TRIGGERED or CANCELLED order never changes status again
\* under any check_triggers, cancel_gtt and place calls, and cancel_gtt on
\* an unknown or non-ACTIVE order returns False and changes nothing.
C15_StatusMonotonic ==
    []C15_Statuses /\ [][C15_StatusStep /\ C15_CancelStep]_vars

\* cancel_gtt was refused for a TRIGGERED order, and an order was cancelled
C15_Witness ==
    /\ gttHist.op = "cancel_gtt" /\ ~gttHist.ret
    /\ gttHist.id \in GttIds
    /\ gtt_orders[gttHist.id].status = "TRIGGERED"
    /\ \E id \in GttIds : gtt_orders[id].status = "CANCELLED"

(***************************************************************************)
(* Properties of the bracket order manager.                                *)
(***************************************************************************)
BoIds == 1..Len(orders)

\* the manager's own state
BoState == <<orders, bo_callback, completed_orders, boEvents>>

\* a place_bracket_order call with stop-loss or target on a wrong side of
\* the entry returns "", raises nothing and changes nothing; a call that
\* stores an order had them on the right sides, and the stored order is
\* PENDING (ENTERED for MARKET) with the prices it was given
C16_PlaceStep ==
    boHist'.op = "place_bracket_order" =>
        /\ ~boHist'.args.right_sides
            => ~boHist'.ret /\ ~boHist'.raised /\ UNCHANGED BoState
        /\ Len(orders') > Len(orders)
            => /\ boHist'.args.right_sides
               /\ Len(orders') = Len(orders) + 1
               /\ RightSides(orders'[Len(orders')])
               /\ orders'[Len(orders')].status
                    = IF boHist'.args.order_type = "MARKET"
                      THEN "ENTERED" ELSE "PENDING"

\* orders are stored by place_bracket_order only
C16_StoredByPlace ==
    Len(orders') /= Len(orders) => boHist'.op = "place_bracket_order"

\* C16: place_bracket_order rejects every configuration whose stop-loss and
\* target are not on the right sides of the entry price (BUY: stop_loss <
\* entry_price < target, SELL: target < entry_price < stop_loss): it returns
\* "", stores no order and emits no event, for order type MARKET too, so the
\* order never is PENDING; every stored order had the right sides when it
\* was created.
C16_WrongSidesRejected == [][C16_PlaceStep /\ C16_StoredByPlace]_vars

\* a MARKET order with wrong sides was refused by a manager that has a
\* callback and holds an order
C16_Witness ==
    /\ boHist.op = "place_bracket_order"
    /\ ~boHist.args.right_sides /\ boHist.args.order_type = "MARKET"
    /\ ~boHist.ret
    /\ bo_callback = "set"
    /\ Len(orders) = 1

Transitions ==
    { <<"PENDING", "ENTERED">>, <<"PENDING", "CANCELLED">>,
      <<"ENTERED", "COMPLETED">>, <<"ENTERED", "STOPPED_OUT">> }

C17_TransitionStep ==
    /\ Len(orders') >= Len(orders)
    /\ \A id \in BoIds :
        \/ orders'[id].status = orders[id].status
        \/ <<orders[id].status, orders'[id].status>> \in Transitions

\* cancel returns True exactly for a known PENDING order, which becomes
\* CANCELLED and is the only thing that changes; otherwise nothing changes
C17_CancelStep ==
    boHist'.op = "cancel" =>
        LET order_id == boHist'.id IN
        IF order_id \in BoIds /\ orders[order_id].status = "PENDING"
        THEN /\ boHist'.ret
             /\ orders' = [orders EXCEPT ![order_id].status = "CANCELLED"]
             /\ UNCHANGED <<bo_callback, completed_orders, boEvents>>
        ELSE ~boHist'.ret /\ UNCHANGED BoState

\* an order is CANCELLED by cancel only
C17_CancelledByCancel ==
    \A id \in BoIds :
        (orders[id].status /= "CANCELLED" /\ orders'[id].status = "CANCELLED")
            => boHist'.op = "cancel" /\ boHist'.id = id

\* C17: under any check_prices, cancel and modify_sl calls the status of a
\* bracket only moves PENDING -> ENTERED, PENDING -> CANCELLED, ENTERED ->
\* COMPLETED or ENTERED -> STOPPED_OUT; COMPLETED, STOPPED_OUT and CANCELLED
\* are never left; cancel succeeds only on a PENDING order and otherwise
\* returns False and changes nothing.
C17_TransitionsMonotonic ==
    [][C17_TransitionStep /\ C17_CancelStep /\ C17_CancelledByCancel]_vars

\* cancel was refused for an order that had been stopped out
C17_Witness ==
    /\ boHist.op = "cancel" /\ ~boHist.ret
    /\ boHist.id \in BoIds
    /\ orders[boHist.id].status = "STOPPED_OUT"

\* modify_sl takes new_sl exactly for a known ENTERED order whose stop it
\* tightens, and then changes that stop only; otherwise it returns False and
\* changes nothing; it never raises
C20_ModifyStep ==
    boHist'.op = "modify_sl" =>
        LET order_id == boHist'.id
            new_sl == boHist'.price
        IN
        /\ ~boHist'.raised
        /\ IF /\ order_id \in BoIds
              /\ orders[order_id].status = "ENTERED"
              /\ \/ orders[order_id].side = "BUY" /\ new_sl > orders[order_id].stop_loss
                 \/ orders[order_id].side = "SELL" /\ new_sl < orders[order_id].stop_loss
           THEN /\ boHist'.ret
                /\ orders' = [orders EXCEPT ![order_id].stop_loss = new_sl]
                /\ UNCHANGED <<bo_callback, completed_orders, boEvents>>
           ELSE ~boHist'.ret /\ UNCHANGED BoState

\* in every step a BUY order's stop does not fall and a SELL order's stop
\* does not rise, and a stop changes in a modify_sl call only
C20_StopStep ==
    \A id \in BoIds :
        /\ orders[id].side = "BUY" => orders'[id].stop_loss >= orders[id].stop_loss
        /\ orders[id].side = "SELL" => orders'[id].stop_loss <= orders[id].stop_loss
        /\ orders'[id].stop_loss /= orders[id].stop_loss
            => boHist'.op = "modify_sl" /\ boHist'.id = id

\* C20: a trailing-stop adjustment never loosens the stop: modify_sl changes
\* the stop only for an ENTERED order and only when the new value is
\* strictly higher (BUY) or strictly lower (SELL) than the current stop; in
\* every other case it returns False, raises nothing and leaves the order
\* unchanged, so a BUY order's stop never decreases and a SELL order's stop
\* never increases.
C20_StopOnlyTightens == [][C20_ModifyStep /\ C20_StopStep]_vars

\* a stop that was tightened, and then a call that would loosen it refused
C20_Witness ==
    /\ boHist.op = "modify_sl" /\ ~boHist.ret
    /\ boHist.id \in BoIds
    /\ orders[boHist.id].status = "ENTERED"
    /\ orders[boHist.id].side = "BUY"
    /\ boHist.price < orders[boHist.id].stop_loss

HitsStop(bo, price) ==
    \/ bo.side = "BUY" /\ price <= bo.stop_loss
    \/ bo.side = "SELL" /\ price >= bo.stop_loss

HitsTarget(bo, price) ==
    \/ bo.side = "BUY" /\ price >= bo.target
    \/ bo.side = "SELL" /\ price <= bo.target

\* the positions in ev of order id's entry events and of its exit events
EntryEvents(ev, id) ==
    {k \in 1..Len(ev) : ev[k].bracket_id = id /\ ev[k].source = "BRACKET_ENTRY"}
ExitEvents(ev, id) ==
    {k \in 1..Len(ev) : ev[k].bracket_id = id /\ ev[k].source /= "BRACKET_ENTRY"}

\* this step added one event of order id, an exit event on `side`
OneExitEvent(id, side) ==
    /\ EntryEvents(boEvents', id) = EntryEvents(boEvents, id)
    /\ Cardinality(ExitEvents(boEvents', id)) = Cardinality(ExitEvents(boEvents, id)) + 1
    /\ \A k \in ExitEvents(boEvents', id) \ ExitEvents(boEvents, id) :
        boEvents'[k].side = side

C18_ExitStep ==
    boHist'.op = "check_prices" =>
    \A id \in BoIds :
        LET bo == orders[id] IN
        (bo.status = "ENTERED" /\ bo.symbol = boHist'.symbol) =>
            /\ HitsStop(bo, boHist'.price)
                => /\ orders'[id].status = "STOPPED_OUT"
                   /\ bo_callback = "set"
                        => OneExitEvent(id, IF bo.side = "BUY" THEN "SELL" ELSE "BUY")
            /\ HitsTarget(bo, boHist'.price)
                => /\ orders'[id].status = "COMPLETED"
                   /\ bo_callback = "set"
                        => OneExitEvent(id, IF bo.side = "BUY" THEN "SELL" ELSE "BUY")

C18_EventsInOrder ==
    \A id \in BoIds :
        /\ Cardinality(EntryEvents(boEvents, id)) <= 1
        /\ Cardinality(ExitEvents(boEvents, id)) <= 1
        /\ \A x \in ExitEvents(boEvents, id) :
            \E e \in EntryEvents(boEvents, id) : e < x

\* C18: for an ENTERED bracket a tick that hits the stop (BUY: price <=
\* stop_loss, SELL: price >= stop_loss) moves it to STOPPED_OUT and a tick
\* that hits the target (BUY: price >= target, SELL: price <= target) moves
\* it to COMPLETED, each with exactly one exit event on the side opposite to
\* the entry; a bracket has at most one entry event and at most one exit
\* event, and the exit event never comes before the entry event.
C18_ExitOnStopOrTarget == []C18_EventsInOrder /\ [][C18_ExitStep]_vars

MeetsEntry(bo, symbol, price) ==
    /\ bo.symbol = symbol
    /\ \/ bo.side = "BUY" /\ price <= bo.entry_price
       \/ bo.side = "SELL" /\ price >= bo.entry_price

\* order id has exactly one event after this step, an entry event on `side`,
\* and it is new
OneEntryEvent(id, side) ==
    /\ EntryEvents(boEvents, id) = {} /\ ExitEvents(boEvents', id) = {}
    /\ Cardinality(EntryEvents(boEvents', id)) = 1
    /\ \A k \in EntryEvents(boEvents', id) : boEvents'[k].side = side

NoNewEvent(id) ==
    /\ EntryEvents(boEvents', id) = EntryEvents(boEvents, id)
    /\ ExitEvents(boEvents', id) = ExitEvents(boEvents, id)

\* a tick seen by a PENDING order
C19_TickStep ==
    boHist'.op = "check_prices" =>
    \A id \in BoIds :
        LET bo == orders[id] IN
        bo.status = "PENDING" =>
            IF MeetsEntry(bo, boHist'.symbol, boHist'.price)
            THEN /\ orders'[id].status = "ENTERED"
                 /\ bo_callback = "set" => OneEntryEvent(id, bo.side)
            ELSE orders'[id].status = "PENDING" /\ NoNewEvent(id)

\* a placement: a MARKET order is ENTERED at once with its entry event, any
\* other order is PENDING without an event
C19_PlaceStep ==
    (boHist'.op = "place_bracket_order" /\ Len(orders') > Len(orders)) =>
        LET id == Len(orders') IN
        IF orders'[id].order_type = "MARKET"
        THEN /\ orders'[id].status = "ENTERED"
             /\ bo_callback = "set" => OneEntryEvent(id, orders'[id].side)
        ELSE orders'[id].status = "PENDING" /\ boEvents' = boEvents

\* no other call enters a PENDING order
C19_OtherStep ==
    boHist'.op \notin {"check_prices", "place_bracket_order"} =>
        \A id \in BoIds :
            orders[id].status = "PENDING" => orders'[id].status /= "ENTERED"

\* C19: a PENDING bracket becomes ENTERED, with one entry event on its own
\* side, exactly when a tick for its symbol meets the entry condition (BUY:
\* price <= entry_price, SELL: price >= entry_price), or at once at placement
\* when the order type is MARKET; a tick that does not meet the condition,
\* or a tick for another symbol, leaves it PENDING with no event.
C19_EntersWhenConditionMet ==
    [][C19_TickStep /\ C19_PlaceStep /\ C19_OtherStep]_vars

Exited(bo) == bo.status \in {"COMPLETED", "STOPPED_OUT"}

DirectionSign(bo) == IF bo.side = "BUY" THEN 1 ELSE -1

RealizedPnl(bo, exit_price) ==
    (exit_price - bo.entry_price) * bo.quantity * DirectionSign(bo)

\* a bracket that has not exited has pnl 0
C21_ZeroBeforeExit ==
    \A id \in BoIds : ~Exited(orders[id]) => orders[id].pnl = 0

\* a bracket exits only in a check_prices call and then records the pnl of
\* that call's price; once exited its pnl stays
C21_PnlStep ==
    \A id \in BoIds :
        /\ (~Exited(orders[id]) /\ Exited(orders'[id]))
            => /\ boHist'.op = "check_prices"
               /\ orders'[id].pnl = RealizedPnl(orders[id], boHist'.price)
        /\ Exited(orders[id]) => orders'[id].pnl = orders[id].pnl

\* C21: realized P&L is recorded at exit as (exitPrice - entryPrice) x
\* quantity x directionSign (+1 BUY, -1 SELL), exitPrice being the price of
\* the tick that caused the exit; it is 0 before exit and never changes once
\* the bracket is COMPLETED or STOPPED_OUT.
C21_PnlRecordedAtExit == [](C21_ZeroBeforeExit) /\ [][C21_PnlStep]_vars

\* a SELL bracket just exited on this tick with a non-zero pnl
C21_Witness ==
    /\ boHist.op = "check_prices"
    /\ \E id \in BoIds :
        /\ orders[id].side = "SELL" /\ Exited(orders[id])
        /\ orders[id].pnl = RealizedPnl(orders[id], boHist.price)
        /\ orders[id].pnl /= 0

(***************************************************************************)
(* Properties of the rate limiter.                                         *)
(***************************************************************************)
\* 100 ms in clock ticks
HundredMs == TicksPerSecond \div 10

\* the test has made all its calls, and the clock advanced only while the
\* test slept
TestRanImmediate ==
    /\ rl_test.phase = "done"
    /\ ~rl_test.early
    /\ ~rl_test.late

\* the first ten acquire(1) were granted and the eleventh refused
DrainedAndRefused ==
    /\ \A i \in 1..TestCapacity : rl_test.results[i]
    /\ ~rl_test.results[TestCapacity + 1]

\* of the two acquire(1) after the sleep the first was granted and the
\* second refused
OneMoreGranted ==
    /\ rl_test.results[TestCapacity + 2]
    /\ ~rl_test.results[TestCapacity + 3]

\* C22 as stated: a limiter with rate 10 and capacity 10 that starts full
\* grants 10 immediate acquire(1) and refuses the 11th; after a wait of at
\* least 100 ms exactly one more acquire(1) is granted and the next refused.
C22_OneMoreAfterAtLeast100ms ==
    (TestRanImmediate /\ rl_test.slept >= HundredMs)
        => DrainedAndRefused /\ OneMoreGranted

\* C22: a limiter with rate 10 and capacity 10 that starts full grants 10
\* immediate acquire(1) and refuses the 11th; after a wait of at least
\* 100 ms and less than 200 ms exactly one more acquire(1) is granted and
\* the next one refused.
C22_OneMoreAfter100To200ms ==
    TestRanImmediate =>
        /\ DrainedAndRefused
        /\ (rl_test.slept >= HundredMs /\ rl_test.slept < 2 * HundredMs)
            => OneMoreGranted

\* the test slept 150 ms and got one more token
C22_Witness ==
    /\ TestRanImmediate
    /\ rl_test.slept = HundredMs + 1
    /\ DrainedAndRefused /\ OneMoreGranted

\* the token count is within [0, capacity]
C23_TokensInRange == rl_tokens >= 0 /\ rl_tokens <= Units(rl_capacity)

\* the tokens granted so far do not exceed capacity + rate x elapsed time
C23_GrantedWithinRate == rl_allowance >= 0

InAcquire(c) == c.pc \in {"check", "deduct"}

\* while a caller is between its _refill and its return, the token count
\* changes only by that caller's own deduction of exactly the n it asked
\* for, which comes with the result True; a call that ends with False or in
\* a sleep leaves the count as it is
C23_AcquireStep ==
    \A p \in CallerIds :
        LET c == rl_callers[p]
            d == rl_callers'[p]
        IN
        InAcquire(c) =>
            /\ rl_tokens' /= rl_tokens
                => /\ d.pc = "returned" /\ d.ret
                   /\ rl_tokens' = rl_tokens - Units(c.n)
            /\ (~InAcquire(d) /\ d.pc = "returned" /\ d.ret)
                => rl_tokens' = rl_tokens - Units(c.n)
            /\ (~InAcquire(d) /\ ~(d.pc = "returned" /\ d.ret))
                => rl_tokens' = rl_tokens

\* C23: under every interleaving of acquire calls from several tasks or
\* threads the token count stays within [0, capacity], a successful
\* acquire(n) deducts exactly n and a failed one nothing, and the tokens
\* granted up to any moment never exceed capacity + rate x elapsed time.
C23_SafeUnderConcurrency ==
    /\ [](C23_TokensInRange /\ C23_GrantedWithinRate)
    /\ [][C23_AcquireStep]_vars

\* one caller is about to deduct tokens that empty the bucket and use up
\* the whole allowance, while the other caller waits for the lock
C23_Witness ==
    \E p, q \in CallerIds :
        /\ rl_callers[p].pc = "deduct" /\ rl_lock = p
        /\ rl_callers[q].pc = "acquire"
        /\ rl_allowance = Units(rl_callers[p].n)
        /\ rl_tokens = Units(rl_callers[p].n)

\* caller p is inside acquire_async or wait_and_acquire
Blocked(p) ==
    /\ rl_callers[p].kind \in {"acquire_async", "wait_and_acquire"}
    /\ rl_callers[p].pc \notin {"idle", "returned"}

\* caller p has returned from its call with the tokens granted
Granted(p) == rl_callers[p].pc = "returned" /\ rl_callers[p].ret

\* C24: as time advances and under fair scheduling, every caller of
\* acquire_async(n) or wait_and_acquire(n) eventually returns with its n
\* tokens granted, for every n >= 1 and any number of concurrent callers.
C24_NoStarvation == \A p \in CallerIds : Blocked(p) ~> Granted(p)

(***************************************************************************)
(* Properties of AngelDataClient.get_historical_data.                      *)
(***************************************************************************)
\* task f makes the upstream call of its attempt in this step
Calls(f) == fetches[f].pc = "call" /\ fetches'[f].pc /= "call"

\* no fetch has made more than MAX_RETRIES upstream calls, and a fetch that
\* raised made none
C25_AtMostThreeCalls ==
    \A f \in FetchIds :
        /\ fetches[f].calls <= MAX_RETRIES
        /\ fetches[f].result = "raised" => fetches[f].calls = 0

\* the outcome of a call is retried exactly when Again(outcome) and
\* attempts remain; every other call ends the fetch: with the series after
\* a payload that validates, with None otherwise
CallStep(Again(_)) ==
    \A f \in FetchIds :
        Calls(f) =>
            LET c == fetches[f]
                d == fetches'[f]
            IN
            /\ d.calls = c.calls + 1
            /\ d.calls = c.attempt
            /\ IF Again(d.last) /\ c.attempt < MAX_RETRIES
               THEN d.pc = "backoff" /\ d.attempt = c.attempt
               ELSE /\ d.pc = "done"
                    /\ d.result = IF d.last = "data" THEN "df" ELSE "None"

\* C25 as stated: a fetch makes at most 3 upstream calls; it retries only
\* when the upstream answered with a retryable error code and attempts
\* remain; any other failure ends it after that call, exhausted retries end
\* it after the third call, both with a failure result and no exception; a
\* success ends it at once.
C25_RetriesOnlyRetryableCodes ==
    [](C25_AtMostThreeCalls) /\ [][CallStep(Retryable)]_vars

RetryableOrException(outcome) == Retryable(outcome) \/ outcome = "exception"

\* C25: a fetch makes at most 3 upstream calls; it retries when the
\* upstream answered with a retryable error code or the call raised an
\* exception, and attempts remain; any other failure ends it after that
\* call, exhausted retries end it after the third call, both with a failure
\* result and no exception; a success ends it at once.
C25_RetriesCodesAndExceptions ==
    [](C25_AtMostThreeCalls) /\ [][CallStep(RetryableOrException)]_vars

\* a fetch has ended with None after three calls, the last one answered
\* with a retryable code, while another ended after one call that was
\* answered with another code
C25_Witness ==
    \E f, g \in FetchIds :
        /\ fetches[f].pc = "done" /\ fetches[f].calls = MAX_RETRIES
        /\ Retryable(fetches[f].last) /\ fetches[f].result = "None"
        /\ fetches[g].pc = "done" /\ fetches[g].calls = 1
        /\ fetches[g].last = "AB2001" /\ fetches[g].result = "None"

\* C26: after an attempt was answered with AB1004, every caller's next
\* upstream request waits for the shared cooldown deadline: under any
\* interleaving of concurrent fetches no upstream call is issued before the
\* cooldown deadline in force has passed.
C26_NoCallBeforeDeadline ==
    [][\A f \in FetchIds : Calls(f) => cooldown_left = 0]_vars

(***************************************************************************)
(* Properties of AngelDataClient.get_historical_data_chunked.              *)
(***************************************************************************)
\* the call has come to its return statement
ChunkedReturned == chunked.pc = "done" /\ chunked.returned.value # "raised"

\* a 10-day range asked for in chunks of 3 days
TenDaysByThree == chunked.to_date = 10 /\ chunked.given = 3

\* a step that requests a sub-range: no sub-request is running, and the
\* sub-range begins where the one before it ended
RequestStep ==
    Len(chunked'.requests) > Len(chunked.requests) /\ chunked.requests # <<>>
        => /\ chunked.pc = "loop"
           /\ Len(chunked'.requests) = Len(chunked.requests) + 1
           /\ chunked'.requests[Len(chunked'.requests)].from
                  = chunked.requests[Len(chunked.requests)].to

Collected == Concat(chunked.all_dfs)

\* the timestamps that more than one collected candle carries
Repeated == {Collected[i].timestamp : i \in Duplicated(Collected)}

\* C28: the returned series has no duplicate timestamp and ascends by
\* timestamp, whatever the chunks returned; of the candles with one timestamp
\* the one of the earliest chunk is kept, and every timestamp some chunk
\* returned is in the series.
C28_MergedDedupedSorted ==
    chunked.pc = "done" /\ chunked.returned.value = "df" =>
        LET df == chunked.returned.df IN
        /\ \A i, j \in 1..Len(df) : i < j => df[i].timestamp < df[j].timestamp
        /\ \A i \in 1..Len(df) :
              /\ df[i] \in Range(Collected)
              /\ \A k \in 1..Len(Collected) :
                    Collected[k].timestamp = df[i].timestamp
                        => df[i].chunk <= Collected[k].chunk
        /\ {df[i].timestamp : i \in 1..Len(df)}
               = {Collected[k].timestamp : k \in 1..Len(Collected)}

\* two adjacent chunks both returned the boundary sample, and a chunk came
\* newest first
C28_Witness ==
    /\ chunked.pc = "done" /\ chunked.returned.value = "df"
    /\ Repeated # {}
    /\ \E k \in 1..(Len(Collected) - 1) :
          Collected[k].timestamp > Collected[k + 1].timestamp
    /\ Len(chunked.returned.df) >= 3

\* C29: a chunk that failed or came back empty does not end the call: when
\* the call is over every sub-range up to to_date has been requested, the
\* result is the merge of the chunks that returned candles, and the call
\* fails only when no chunk returned any.
C29_FailedChunkNotFatal ==
    chunked.pc = "done" =>
        /\ chunked.requests[Len(chunked.requests)].to = chunked.to_date
        /\ chunked.all_dfs # <<>> =>
              /\ chunked.returned.value = "df"
              /\ Range(chunked.returned.df) = Range(DropDuplicates(Collected))
        /\ chunked.returned.value # "df" => chunked.all_dfs = <<>>

\* C30: the continuity report of a merged series counts as duplicate_count
\* the candles whose timestamp repeated an earlier one among the collected
\* chunks, before de-duplication, and the caller receives the report together
\* with the series.
C30_ReportCountsDuplicatesAndIsReturned ==
    chunked.pc = "done" /\ chunked.returned.value = "df" =>
        /\ Len(chunked.continuity) = 1
        /\ chunked.continuity[1].duplicate_count = Cardinality(Duplicated(Collected))
        /\ "continuity" \in DOMAIN chunked.returned

(***************************************************************************)
(* Properties of AngelDataClient._continuity_summary.                      *)
(***************************************************************************)
\* the timestamps of the frame that parse
Parsed(df) == {df[i].timestamp : i \in 1..Len(df)} \ {NaT}

\* the rows of the frame whose timestamp parses
ParsedRows(df) == {i \in 1..Len(df) : df[i].timestamp # NaT}

\* the timestamp next before t in the sorted series
Previous(df, t) ==
    CHOOSE u \in Parsed(df) : u < t /\ \A v \in Parsed(df) : v < t => v <= u

\* the timestamps more than 1.5 x the interval after the one before them
GapsAfter(df, seconds) ==
    {t \in Parsed(df) :
        /\ \E u \in Parsed(df) : u < t
        /\ 2 * (t - Previous(df, t)) * StampSeconds > 3 * seconds}

\* C31: gap_count is the number of adjacent pairs of the sorted series that
\* lie more than 1.5 x the nominal interval apart, duplicate_count is the
\* number of rows whose timestamp repeats an earlier one; both are 0 for an
\* empty series, and gap_count is 0 for an interval without a nominal length.
C31_ContinuityCounts ==
    summary.pc = "returned" =>
        LET df == summary.df
            known == summary.interval \in {"ONE_MINUTE", "one_minute"}
        IN
        /\ summary.result.duplicate_count
               = Cardinality(ParsedRows(df)) - Cardinality(Parsed(df))
        /\ summary.result.gap_count
               = IF known THEN Cardinality(GapsAfter(df, 60)) ELSE 0
        /\ df = <<>> => summary.result = [gap_count |-> 0, duplicate_count |-> 0]

\* an unsorted series with a delta of exactly 1.5 x the interval and a
\* longer one
C31_Witness ==
    /\ summary.pc = "returned" /\ summary.interval = "one_minute"
    /\ summary.df = <<[timestamp |-> 9], [timestamp |-> 2], [timestamp |-> 5]>>
    /\ summary.result = [gap_count |-> 1, duplicate_count |-> 0]

(***************************************************************************)
(* Properties of BarAggregator: the ticks counted in a bar.                *)
(***************************************************************************)
\* the bucket start of an emitted bar, from its isoformat timestamp
StartOf(output_bar) ==
    output_bar.timestamp.date * DayLen + output_bar.timestamp.time

\* C32: a tick is counted in an open bar only when its bucket start is the
\* bar's, so the ticks counted in an emitted bar all have timestamps from the
\* bar's bucket start up to, not including, the bucket start plus the
\* interval, whatever the order of the ticks' timestamps.
C32_TicksInsideTheirBucket ==
    /\ \A k \in 1..Len(bars) :
          \A t \in barHist.inBar[<<bars[k].symbol, bars[k].interval_seconds>>] :
              GetBarStart(t, bars[k].interval_seconds) = bars[k].bar_start
    /\ \A i \in 1..Len(emitted) :
          \A t \in barHist.stamps[i] :
              /\ StartOf(emitted[i]) <= t
              /\ t < StartOf(emitted[i]) + emitted[i].interval_seconds

\* a step in which task f calls upstream: the task stands after
\* acquire_async with a token granted for this attempt and not yet used
CallAfterAcquire(f) ==
    fetches'[f].calls > fetches[f].calls
        => /\ fetches[f].pc = "call"
           /\ fetches'[f].calls = fetches[f].calls + 1
           /\ fetches[f].granted = fetches[f].calls + 1
           /\ fetches[f].granted = fetches[f].attempt

\* a step in which task f comes to wait in acquire_async: it comes from
\* _wait_for_cooldown
AcquireAfterCooldown(f) ==
    fetches'[f].pc = "acquire" /\ fetches[f].pc # "acquire"
        => fetches[f].pc \in {"cooldown", "cooling"}

\* C33: every upstream call of a fetch, retries included, comes after the
\* cooldown wait and an acquisition of one token made for that call, so a
\* fetch never has made more upstream calls than it was granted tokens.
C33_CallsWithinGrants ==
    /\ [](\A f \in FetchIds : fetches[f].calls <= fetches[f].granted)
    /\ [][\A f \in FetchIds : CallAfterAcquire(f) /\ AcquireAfterCooldown(f)]_vars

\* a fetch that has retried twice: three calls on three tokens
C33_Witness ==
    \E f \in FetchIds :
        /\ fetches[f].pc = "done"
        /\ fetches[f].calls = MAX_RETRIES
        /\ fetches[f].granted = MAX_RETRIES

\* the sub-ranges requested so far ascend from from_date without gap or
\* overlap
Contiguous(requests) ==
    /\ requests # <<>> => requests[1].from = 0
    /\ \A i \in 1..Len(requests) : requests[i].from < requests[i].to
    /\ \A i \in 1..(Len(requests) - 1) : requests[i].to = requests[i + 1].from

\* C34: the call ends for every range and every chunk_days, zero and negative
\* ones too; the sub-ranges it requests ascend, are contiguous and do not
\* overlap, none is longer than min(chunk_days, the interval's own chunk
\* size) days, and when the call has ended they cover [from_date, to_date).
C34_TerminatesAndCovers ==
    /\ chunked.pc \in {"loop", "fetching"} ~> chunked.pc = "done"
    /\ [](/\ Contiguous(chunked.requests)
          /\ \A i \in 1..Len(chunked.requests) :
                chunked.requests[i].to - chunked.requests[i].from
                    <= Min(chunked.given, RecommendedChunkDays(chunked.interval))
          /\ chunked.pc = "done"
                => chunked.requests[Len(chunked.requests)].to = chunked.to_date)

(***************************************************************************)
(* Properties of the bracket order manager: stops and ticks.               *)
(***************************************************************************)
\* C37: an ENTERED bracket keeps the order of its creation whatever
\* modify_sl calls were made: stop_loss < target for a BUY, target <
\* stop_loss for a SELL.
C37_StopStaysInsideTarget ==
    \A id \in BoIds :
        orders[id].status = "ENTERED" =>
            IF orders[id].side = "BUY"
            THEN orders[id].stop_loss < orders[id].target
            ELSE orders[id].target < orders[id].stop_loss

\* the events of order id that this step added
NewBoEvents(id) ==
    (EntryEvents(boEvents', id) \ EntryEvents(boEvents, id))
        \cup (ExitEvents(boEvents', id) \ ExitEvents(boEvents, id))

\* one check_prices call: an order moves by at most one transition, a
\* PENDING order gets no exit event, and no order gets two events
OneTransition(id) ==
    /\ orders[id].status = "PENDING" => orders'[id].status \in {"PENDING", "ENTERED"}
    /\ orders[id].status = "PENDING"
        => ExitEvents(boEvents', id) = ExitEvents(boEvents, id)
    /\ orders[id].status = "ENTERED"
        => orders'[id].status \in {"ENTERED", "COMPLETED", "STOPPED_OUT"}
    /\ orders[id].status \notin {"PENDING", "ENTERED"}
        => orders'[id].status = orders[id].status
    /\ Cardinality(NewBoEvents(id)) <= 1

\* C38: a single check_prices call moves any bracket through at most one
\* state transition: a bracket that enters on a tick is not evaluated for
\* exit on that same tick, so its exit event is caused by a strictly later
\* tick than its entry event, and a bracket emits at most one event per tick.
C38_OneTransitionPerTick ==
    [][boHist'.op = "check_prices" => \A id \in BoIds : OneTransition(id)]_vars

\* an order entered by the last tick at a price that also meets its exit
\* condition, and still ENTERED after the call
C38_Witness ==
    /\ boHist.op = "check_prices"
    /\ bo_callback /= "None"
    /\ \E id \in BoIds :
        /\ orders[id].status = "ENTERED"
        /\ orders[id].symbol = boHist.symbol
        /\ CheckExit(orders[id], boHist.price) /= "None"
        /\ boEvents /= <<>>
        /\ boEvents[Len(boEvents)] = EntryEvent(id, orders[id], boHist.price)

(***************************************************************************)
(* Properties of the GTT engine: the record of fired orders.               *)
(***************************************************************************)
\* the positions in triggered_history that record order id
Recorded(id) == {k \in 1..Len(triggered_history) : triggered_history[k].id = id}

\* C39: after every check_triggers call ends (whether it returns or the
\* order callback raises), the orders in status TRIGGERED are exactly the
\* orders recorded in triggered_history, each recorded once, and every
\* TRIGGERED order that belongs to an OCO pair has a partner that is not
\* ACTIVE.
C39_TriggeredIsRecorded ==
    /\ \A id \in GttIds :
        Cardinality(Recorded(id)) = IF gtt_orders[id].status = "TRIGGERED" THEN 1 ELSE 0
    /\ \A k \in 1..Len(triggered_history) : triggered_history[k].id \in GttIds
    /\ \A p \in oco_pairs :
        gtt_orders[p[1]].status = "TRIGGERED" => gtt_orders[p[2]].status /= "ACTIVE"

(***************************************************************************)
(* Properties of the bar aggregator: flush beside on_tick.                 *)
(***************************************************************************)
\* an on_tick call that runs while flush is suspended emits no bar that
\* flush has emitted already
NoBarTwice ==
    (flush_task.pc = "gather" /\ flush_task' = flush_task) =>
        \A j \in (Len(emitted) + 1)..Len(emitted') :
            KeyOfBar(emitted'[j]) \notin barHist.handed

\* when flush clears self._bars, every open bar is one it has emitted
NoBarDiscarded ==
    (flush_task.pc = "gather" /\ flush_task'.pc = "idle") =>
        \A k \in 1..Len(bars) : KeyOfBar(bars[k]) \in barHist.handed

\* C36: when flush() runs in a task other than the consumer loop and on_tick
\* calls are interleaved at its suspension points (while it awaits the bar
\* callbacks), still no bar is emitted twice and no open bar is discarded
\* without having been emitted.
C36_FlushBesideTicks == [][NoBarTwice /\ NoBarDiscarded]_vars
=============================================================================
